---- MODULE Spec2Model ----
(***************************************************************************)
(* Bubble Pop: the game session and the camera input path                  *)
(* (GameCanvas.tsx), the level table (constants.ts) and the persistence    *)
(* service (storageService.ts).                                            *)
(*                                                                         *)
(* Units.  Lengths are held in tenths of a pixel, the screen shake in      *)
(* thousandths, a particle's life in hundredths, a speed / spawn           *)
(* multiplier in hundredths, a probability in thousandths and times in     *)
(* milliseconds.  The code keeps all of them as floats.                    *)
(*                                                                         *)
(* Time.  The code compares `time - lastSpawnTime` and                     *)
(* `now - lastHandTime` with thresholds and uses the clock for nothing     *)
(* else, so the two timestamps are held as the time elapsed since them     *)
(* (sinceSpawn, sinceHand), saturating above the largest threshold.        *)
(***************************************************************************)
EXTENDS Integers, Sequences, FiniteSets, TLC

VARIABLES
    mode,             \* prop `mode` of GameCanvas
    gameState,        \* gameState.current
    stageDimensions,  \* stageDimensions.current
    isPaused,         \* React state isPaused (what the rendered buttons see)
    effectIsPaused,   \* isPaused as captured by the closures the effect registered
    mounted,          \* the component is mounted (effect set up, not cleaned up)
    raf,              \* a frame callback is pending (requestRef)
    music,            \* audio collaborator: background music
    reports,          \* scores passed to onGameOver, in order
    lsCheckpoint,     \* localStorage[LEVEL_CHECKPOINT_KEY]
    lsScores,         \* localStorage[SCORE_STORAGE_KEY]
    popLog,           \* the pop resolutions of the latest simulated tick, in order
    popCount,         \* per bubble id: pop resolutions since that bubble was spawned
    exitLog,          \* ids of the bubbles the latest tick removed above the top
    lastCall,         \* the latest storage call and what it returned
    appStatus,        \* App's status state (PLAYING while the session is shown)
    ticks,            \* number of frame callbacks run so far
    video,            \* videoRef.current: videoWidth and videoHeight (0 while unknown)
    vision,           \* the VisionService instance and its calls in progress
    oneEuroFilter,    \* oneEuroFilter.current
    lastMap           \* the latest call of the input mapping helpers and its result

vars == <<mode, gameState, stageDimensions, isPaused, effectIsPaused, mounted, raf,
          music, reports, lsCheckpoint, lsScores, popLog, popCount, exitLog, lastCall,
          appStatus, ticks, video, vision, oneEuroFilter, lastMap>>

\* the camera input path
inputVars == <<video, vision, oneEuroFilter, lastMap>>

sessionVars == <<mode, gameState, stageDimensions, isPaused, effectIsPaused, mounted,
                 raf, music, reports, popLog, popCount, exitLog, appStatus, ticks,
                 video, vision, oneEuroFilter, lastMap>>

(***************************************************************************)
(* Bounds of the model                                                     *)
(***************************************************************************)
MaxTicks == 4
MaxBubbles == 3
MaxLevelArg == 3
MaxScoreArg == 3

\* the most hand samples one behaviour processes
MaxSamples == 2

\* the most calls of a pointer helper one behaviour makes
MaxCalls == 4

\* the most frame callbacks of a behaviour that also takes hand samples
MaxShortTicks == 2
MaxPending == 2

(***************************************************************************)
(* Arithmetic helpers                                                      *)
(***************************************************************************)
Min(a, b) == IF a < b THEN a ELSE b

Max(a, b) == IF a > b THEN a ELSE b

\* Math.round(n / d) for n >= 0, d > 0
Round(n, d) == (2 * n + d) \div (2 * d)

\* Math.floor(h / 2) for an integer h (a number held in halves)
FloorHalf(h) == h \div 2

(***************************************************************************)
(* constants.ts                                                            *)
(***************************************************************************)
BASE_SPEED == 20

SPAWN_RATE_MS == 900

generateLevels ==
    [i \in 1..20 |->
        [target     |-> <<150, 500, 1200, 2200, 3500, 5200, 7500, 10500, 14000,
                          18500, 24000, 30500, 38000, 47000, 57500, 69500,
                          83000, 98500, 116000, 150000>>[i],
         speedMod   |-> Round(1000 + (i - 1) * 75, 10),
         spawnMod   |-> Round(Max(500, 1000 - (i - 1) * 25), 10),
         bombChance |-> Round(Min(3000, 500 + (i - 1) * 125), 10)]]

LEVELS == generateLevels

NumLevels == Len(LEVELS)

\* the other constants.ts of the repository: generateLevels with 100 levels
generateLevels100 ==
    [i \in 1..100 |->
        [target     |-> IF i = 1 THEN 150
                        ELSE IF i = 2 THEN 350
                        ELSE IF i = 3 THEN 600
                        ELSE IF i = 4 THEN 900
                        ELSE IF i = 5 THEN 1250
                        ELSE IF i <= 20 THEN 1250 + (i - 5) * 200
                        ELSE IF i <= 50 THEN 4250 + (i - 20) * 300
                        ELSE 13250 + (i - 50) * 400,
         speedMod   |-> Round(1000 + (i - 1) * 15, 10),
         spawnMod   |-> Round(Max(500, 1000 - (i - 1) * 5), 10),
         bombChance |-> Round(Min(3000, 500 + (i - 1) * 25), 10)]]

\* the other constants.ts of the repository: the literal LEVELS with 6 levels
LEVELS6 ==
    <<[target |-> 150,    speedMod |-> 100, spawnMod |-> 100, bombChance |-> 100],
      [target |-> 400,    speedMod |-> 120, spawnMod |-> 90,  bombChance |-> 150],
      [target |-> 800,    speedMod |-> 140, spawnMod |-> 80,  bombChance |-> 200],
      [target |-> 1500,   speedMod |-> 170, spawnMod |-> 70,  bombChance |-> 250],
      [target |-> 3000,   speedMod |-> 200, spawnMod |-> 60,  bombChance |-> 300],
      [target |-> 999999, speedMod |-> 250, spawnMod |-> 50,  bombChance |-> 350]>>

\* fault: a score table that pays a rare bubble like an ordinary one
SCORING_flat(type) ==
    CASE type = "NORMAL" -> 10
      [] type = "RARE"   -> 10
      [] type = "BOMB"   -> 0
      [] type = "HEART"  -> 0

SCORING(type) ==
    CASE type = "NORMAL" -> 10
      [] type = "RARE"   -> 50
      [] type = "BOMB"   -> 0
      [] type = "HEART"  -> 0

\* LEVELS[Math.min(levelIndex, LEVELS.length - 1)]
currentLevel(levelIndex) == LEVELS[Min(levelIndex, NumLevels - 1) + 1]

(***************************************************************************)
(* storageService.ts                                                       *)
(*                                                                         *)
(* A raw localStorage entry is [kind, tag, h] for the checkpoint key:      *)
(* kind "none" (getItem returns null), "garbage" (text JSON.parse throws   *)
(* on) or "obj" (an object whose highestUnlockedLevel is the JSON value    *)
(* [tag, h]: the number h/2 when tag = "num", a value Math.floor turns     *)
(* into NaN when tag = "nan", 1e999 when tag = "inf").  The version and    *)
(* savedAt fields of the payload take no part in any decision and are not  *)
(* held.                                                                   *)
(***************************************************************************)
NoRecord == [kind |-> "none", tag |-> "num", h |-> 0]

Garbage == [kind |-> "garbage", tag |-> "num", h |-> 0]

Stored(tag, h) == [kind |-> "obj", tag |-> tag, h |-> h]

\* { version: 2, highestUnlockedLevel: 1, savedAt: 0 }
DefaultCheckpoint == [tag |-> "num", h |-> 2]

\* makeCheckpointPayload(highestUnlockedLevel), for an integer argument
makeCheckpointPayload(highestUnlockedLevel) ==
    Stored("num", 2 * Max(1, highestUnlockedLevel))

\* loadCheckpoint(): the payload returned (ret) and the entry left behind (ls)
loadCheckpoint(raw) ==
    IF raw.kind = "none"
    THEN [ret |-> DefaultCheckpoint, ls |-> raw]
    ELSE IF raw.kind = "garbage"
    THEN [ret |-> DefaultCheckpoint, ls |-> NoRecord]
    ELSE IF raw.tag # "num" \/ FloorHalf(raw.h) < 1
    THEN [ret |-> DefaultCheckpoint, ls |-> NoRecord]
    ELSE [ret |-> [tag |-> raw.tag, h |-> raw.h], ls |-> raw]

\* fault: saveUnlockedLevelIfHigher without the `nextUnlocked <= prev` test
saveUnlockedLevelIfHigher_unguarded(raw, levelJustCleared, writeOk) ==
    LET nextUnlocked == Max(1, levelJustCleared + 1)
        cp == loadCheckpoint(raw)
    IN IF writeOk THEN makeCheckpointPayload(nextUnlocked) ELSE cp.ls

\* saveUnlockedLevelIfHigher(levelJustCleared); writeOk: setItem does not throw
saveUnlockedLevelIfHigher(raw, levelJustCleared, writeOk) ==
    LET nextUnlocked == Max(1, levelJustCleared + 1)
        cp == loadCheckpoint(raw)
        prev == IF cp.ret.h = 0 THEN 2 ELSE cp.ret.h
    IN IF 2 * nextUnlocked <= prev THEN cp.ls
       ELSE IF writeOk THEN makeCheckpointPayload(nextUnlocked)
       ELSE cp.ls

\* clearCheckpoint()
clearCheckpoint(raw) == NoRecord

\* The scores entry is [kind, LEVELS, INFINITE]; a mode without a stored score holds 0
NoScores == [kind |-> "none", LEVELS |-> 0, INFINITE |-> 0]

GarbageScores == [kind |-> "garbage", LEVELS |-> 0, INFINITE |-> 0]

\* getHighScore(mode)
getHighScore(raw, m) ==
    IF raw.kind = "obj" THEN raw[m] ELSE 0

\* saveHighScore(mode, score): the value returned (ret) and the entry left behind (ls)
saveHighScore(raw, m, score, writeOk) ==
    LET currentHigh == getHighScore(raw, m)
    IN IF score > currentHigh
       THEN IF raw.kind = "garbage" THEN [ret |-> FALSE, ls |-> raw]
            ELSE IF writeOk
            THEN [ret |-> TRUE, ls |-> [raw EXCEPT !.kind = "obj", ![m] = score]]
            ELSE [ret |-> FALSE, ls |-> raw]
       ELSE [ret |-> FALSE, ls |-> raw]

(***************************************************************************)
(* GameCanvas.tsx: the session                                             *)
(***************************************************************************)
\* fault: a pointer that starts on the surface
Sentinel_onSurface == [x |-> 0, y |-> 1000]

\* the off-surface pointer the session starts with, { x: -100, y: -100 }
Sentinel == [x |-> -1000, y |-> -1000]

\* a bubble is kept while y + radius > -100
RemoveY == -1000

\* gameState.current.messageTimer = 120
MessageTicks == 120

\* a particle starts with life 1.0 and loses 0.02 per tick
ParticleLife == 100

ParticleDecay == 2

\* saturation of the elapsed times: above SPAWN_RATE_MS and above the 500 ms window
Stale == 1000

NoMessage == [text |-> "", n |-> 0]

\* getStartingScore(lvlIndex)
getStartingScore(m, lvlIndex) ==
    IF m = "INFINITE" \/ lvlIndex <= 0 THEN 0 ELSE LEVELS[lvlIndex].target

\* the value of the gameState ref at construction
InitialGameState(m, initialLevel) ==
    LET startLvlIndex == Max(0, initialLevel - 1)
    IN [status          |-> "PLAYING",
        score           |-> getStartingScore(m, startLvlIndex),
        lives           |-> IF m = "LEVELS" THEN 3 ELSE 1,
        levelIndex      |-> startLvlIndex,
        levelScoreStart |-> getStartingScore(m, startLvlIndex),
        sinceSpawn      |-> Stale,
        bubbles         |-> << >>,
        particles       |-> << >>,
        inputType       |-> "MOUSE",
        fingerPos       |-> Sentinel,
        lastStablePos   |-> Sentinel,
        sinceHand       |-> Stale,
        screenShake     |-> 0,
        message         |-> NoMessage,
        messageTimer    |-> 0]

\* the ids of the bubbles in a list
IdsOf(bs) == {bs[i].id : i \in 1..Len(bs)}

\* an id no active bubble carries (the code draws a random string)
FreshId(bs) == CHOOSE i \in 1..MaxBubbles : i \notin IdsOf(bs) /\ \A j \in 1..(i - 1) : j \in IdsOf(bs)

\* spawnBubble's bombChance, in parts of 8000
bombChance(m, gs) ==
    IF m = "INFINITE" THEN Min(2800, 400 + gs.score)
                      ELSE 8 * currentLevel(gs.levelIndex).bombChance

\* spawnBubble's difficultyMult, in parts of 2000
difficultyMult(m, gs) == IF m = "INFINITE" THEN 2000 + gs.score ELSE 2000

DrawType_anyLevel(m, gs, rand) ==
    IF 8 * rand < bombChance(m, gs) THEN "BOMB"
    ELSE IF 8 * rand < bombChance(m, gs) + 1200 THEN "RARE"
    ELSE IF m = "LEVELS" /\ gs.lives < 3 /\ rand > 970 THEN "HEART"
    ELSE "NORMAL"

\* the category drawn by spawnBubble from rand (in thousandths)
DrawType(m, gs, rand) ==
    IF 8 * rand < bombChance(m, gs) THEN "BOMB"
    ELSE IF 8 * rand < bombChance(m, gs) + 1200 THEN "RARE"
    ELSE IF m = "LEVELS" /\ gs.lives < 3 /\ rand > 970 /\ gs.levelIndex > 1 THEN "HEART"
    ELSE "NORMAL"

\* the bubble spawnBubble builds; rnd holds the Math.random() draws
\* (x, r, s in hundredths, t in thousandths)
NewBubble(m, gs, dims, rnd) ==
    LET baseRadius == (dims.width * 4) \div 100
        type == DrawType(m, gs, rnd.t)
    IN [id       |-> FreshId(gs.bubbles),
        x        |-> (rnd.x * (dims.width - baseRadius * 3)) \div 100 + (baseRadius * 3) \div 2,
        y        |-> dims.height + baseRadius,
        radius   |-> (baseRadius * (IF type = "RARE" THEN 8 ELSE 10) * (90 + (rnd.r * 20) \div 100))
                        \div 1000,
        speed    |-> (BASE_SPEED * currentLevel(gs.levelIndex).speedMod * difficultyMult(m, gs)
                        * (80 + (rnd.s * 40) \div 100)) \div (100 * 2000 * 100),
        type     |-> type,
        isPopped |-> FALSE]

\* spawnBubble()
spawnBubble(m, gs, dims, rnd) ==
    IF dims.width = 0 \/ dims.height = 0 THEN gs
    ELSE [gs EXCEPT !.bubbles = Append(@, NewBubble(m, gs, dims, rnd))]

\* createParticles(x, y, type, count): the count particles of one call, which share
\* their life (positions, velocities, sizes are drawn at random and only drawn)
createParticles(gs, type, count) ==
    [gs EXCEPT !.particles = Append(@, [n |-> count, type |-> type, life |-> ParticleLife])]

\* showMessage(msg)
showMessage(gs, msg) ==
    [gs EXCEPT !.message = msg, !.messageTimer = MessageTicks]

\* restartLevel()
restartLevel_fromZero(gs) ==
    [showMessage(gs, [text |-> "Level Failed! Restarting...", n |-> 0])
        EXCEPT !.screenShake = 30000,
               !.bubbles = << >>,
               !.particles = << >>,
               !.lives = 3,
               !.score = 0]

\* restartLevel()
restartLevel(gs) ==
    [showMessage(gs, [text |-> "Level Failed! Restarting...", n |-> 0])
        EXCEPT !.screenShake = 30000,
               !.bubbles = << >>,
               !.particles = << >>,
               !.lives = 3,
               !.score = gs.levelScoreStart]

\* fault: endGame that reports the score and leaves the status alone
endGame_keepsStatus(w) ==
    [w EXCEPT !.reports = Append(@, w.gs.score)]

\* endGame(): w is the world a tick works on
endGame(w) ==
    [w EXCEPT !.gs.status = "GAME_OVER",
              !.reports = Append(@, w.gs.score)]

(***************************************************************************)
(* A tick works on a world w: the session state gs, the array arr that     *)
(* state.bubbles.forEach iterates (its elements are mutated in place),     *)
(* detached = gameState.current.bubbles no longer is that array (it was    *)
(* reassigned during the loop), the checkpoint entry cp, the reports made  *)
(* to onGameOver, the arguments of the saveUnlockedLevelIfHigher calls     *)
(* made (calls), and the observations log, pops and exited.                *)
(***************************************************************************)
\* gameState.current.bubbles as a handler sees it during the loop
BubblesNow(w) == IF w.detached THEN w.gs.bubbles ELSE w.arr

\* fault: handlePop without its first line
markPopped_skipped(b) == b

\* handlePop, first line: bubble.isPopped = true
markPopped(b) == [b EXCEPT !.isPopped = TRUE]

\* fault: a level-mode failure that ends the game instead of restarting the level
popBomb_endsOnFailure(w, m) ==
    LET w1 == [w EXCEPT !.gs = createParticles([w.gs EXCEPT !.screenShake = 25000], "BOMB", 30)]
    IN IF m = "INFINITE" THEN endGame(w1)
       ELSE LET g2 == [w1.gs EXCEPT !.lives = @ - 1]
            IN IF g2.lives <= 0
               THEN endGame([w1 EXCEPT !.gs = g2])
               ELSE [w1 EXCEPT !.gs = g2]

\* handlePop, the BOMB branch
popBomb(w, m) ==
    LET w1 == [w EXCEPT !.gs = createParticles([w.gs EXCEPT !.screenShake = 25000], "BOMB", 30)]
    IN IF m = "INFINITE" THEN endGame(w1)
       ELSE LET g2 == [w1.gs EXCEPT !.lives = @ - 1]
            IN IF g2.lives <= 0
               THEN [w1 EXCEPT !.gs = restartLevel(g2), !.detached = TRUE]
               ELSE [w1 EXCEPT !.gs = g2]

\* fault: the life-restore branch without the `lives < 3` test
popScoring_uncapped(w, b) ==
    LET g1 == createParticles([w.gs EXCEPT !.score = @ + SCORING(b.type)], b.type, 15)
    IN [w EXCEPT !.gs = IF b.type = "HEART"
                        THEN [g1 EXCEPT !.lives = @ + 1]
                        ELSE g1]

\* handlePop, the branch of the other categories
popScoring(w, b) ==
    LET g1 == createParticles([w.gs EXCEPT !.score = @ + SCORING(b.type)], b.type, 15)
    IN [w EXCEPT !.gs = IF b.type = "HEART" /\ g1.lives < 3
                        THEN [g1 EXCEPT !.lives = @ + 1]
                        ELSE g1]

\* gameState.current.bubbles.forEach(b => createParticles(b.x, b.y, b.type, 5))
RECURSIVE burstEach(_, _, _)
burstEach(gs, bs, i) ==
    IF i > Len(bs) THEN gs
    ELSE burstEach(createParticles(gs, bs[i].type, 5), bs, i + 1)

\* fault: the level-clear check with `>` for `>=`
levelClear_strict(w, m, writeOk) ==
    IF m = "LEVELS" /\ w.gs.score > currentLevel(w.gs.levelIndex).target
    THEN LET completedLevel == w.gs.levelIndex + 1
             g1 == [w.gs EXCEPT !.levelIndex = @ + 1,
                                !.levelScoreStart = w.gs.score]
             g2 == showMessage(g1, [text |-> "Level", n |-> g1.levelIndex + 1])
             g3 == burstEach(g2, BubblesNow(w), 1)
         IN [w EXCEPT !.cp = saveUnlockedLevelIfHigher(w.cp, completedLevel, writeOk),
                      !.calls = Append(@, completedLevel),
                      !.gs = [g3 EXCEPT !.bubbles = << >>],
                      !.detached = TRUE]
    ELSE w

\* fault: the level-clear check passing the 0-based index of the cleared level
levelClear_zeroBased(w, m, writeOk) ==
    IF m = "LEVELS" /\ w.gs.score >= currentLevel(w.gs.levelIndex).target
    THEN LET completedLevel == w.gs.levelIndex
             g1 == [w.gs EXCEPT !.levelIndex = @ + 1,
                                !.levelScoreStart = w.gs.score]
             g2 == showMessage(g1, [text |-> "Level", n |-> g1.levelIndex + 1])
             g3 == burstEach(g2, BubblesNow(w), 1)
         IN [w EXCEPT !.cp = saveUnlockedLevelIfHigher(w.cp, completedLevel, writeOk),
                      !.calls = Append(@, completedLevel),
                      !.gs = [g3 EXCEPT !.bubbles = << >>],
                      !.detached = TRUE]
    ELSE w

\* handlePop, the level-clear check
levelClear(w, m, writeOk) ==
    IF m = "LEVELS" /\ w.gs.score >= currentLevel(w.gs.levelIndex).target
    THEN LET completedLevel == w.gs.levelIndex + 1
             g1 == [w.gs EXCEPT !.levelIndex = @ + 1,
                                !.levelScoreStart = w.gs.score]
             g2 == showMessage(g1, [text |-> "Level", n |-> g1.levelIndex + 1])
             g3 == burstEach(g2, BubblesNow(w), 1)
         IN [w EXCEPT !.cp = saveUnlockedLevelIfHigher(w.cp, completedLevel, writeOk),
                      !.calls = Append(@, completedLevel),
                      !.gs = [g3 EXCEPT !.bubbles = << >>],
                      !.detached = TRUE]
    ELSE w

\* handlePop(bubble) for the bubble at arr[i]
handlePop(w, i, m, writeOk) ==
    LET b  == w.arr[i]
        w0 == [w EXCEPT !.arr[i] = markPopped(b), !.pops[b.id] = @ + 1]
        w1 == IF b.type = "BOMB" THEN popBomb(w0, m) ELSE popScoring(w0, b)
        w2 == levelClear(w1, m, writeOk)
    IN [w2 EXCEPT !.log = Append(@,
          [id |-> b.id, type |-> b.type,
           scoreB |-> w.gs.score, livesB |-> w.gs.lives, levelB |-> w.gs.levelIndex,
           statusB |-> w.gs.status,
           scoreM |-> w1.gs.score, livesM |-> w1.gs.lives,
           restarted |-> (b.type = "BOMB" /\ m = "LEVELS" /\ w.gs.lives - 1 <= 0),
           cleared |-> (w2.gs.levelIndex # w1.gs.levelIndex),
           notified |-> IF Len(w2.calls) > Len(w.calls) THEN w2.calls[Len(w2.calls)] ELSE 0,
           scoreA |-> w2.gs.score, livesA |-> w2.gs.lives, levelA |-> w2.gs.levelIndex,
           startA |-> w2.gs.levelScoreStart, statusA |-> w2.gs.status,
           emptyA |-> (BubblesNow(w2) = << >>),
           cpB |-> w.cp, cpA |-> w2.cp, wrote |-> writeOk,
           reported |-> IF Len(w2.reports) > Len(w.reports)
                        THEN w2.reports[Len(w2.reports)] ELSE -1])]

\* dist < b.radius * 1.3 for dist = Math.hypot(b.x - p.x, b.y - p.y)
InHitRadius(b, p) ==
    LET dx == b.x - p.x
        dy == b.y - p.y
        reach == (13 * b.radius) \div 10 + 1
    IN /\ dx < reach /\ -dx < reach /\ dy < reach /\ -dy < reach
       /\ 100 * (dx * dx + dy * dy) < 169 * b.radius * b.radius

\* state.bubbles.forEach(b => { b.y -= b.speed; if (!b.isPopped && hit) handlePop(b) })
RECURSIVE forEachBubble(_, _, _, _)
forEachBubble(w, i, m, writeOk) ==
    IF i > Len(w.arr) THEN w
    ELSE LET b0 == w.arr[i]
             b1 == [b0 EXCEPT !.y = b0.y - b0.speed]
             w1 == [w EXCEPT !.arr[i] = b1]
         IN forEachBubble(IF ~b1.isPopped /\ InHitRadius(b1, w.gs.fingerPos)
                          THEN handlePop(w1, i, m, writeOk)
                          ELSE w1,
                          i + 1, m, writeOk)

\* fault: the filter without the test against the top
keepBubble_noTop(b) == ~b.isPopped

\* fault: the filter without the test of the popped flag
keepBubble_keepsPopped(b) == b.y + b.radius > RemoveY

\* b.y + b.radius > -100 && !b.isPopped
keepBubble(b) == b.y + b.radius > RemoveY /\ ~b.isPopped

\* state.bubbles = state.bubbles.filter(...)
filterBubbles(bs) == SelectSeq(bs, keepBubble)

\* the ids of the bubbles the filter drops because they left through the top
leftTop(b) == ~(b.y + b.radius > RemoveY) /\ ~b.isPopped

RECURSIVE IdSeq(_, _)
IdSeq(bs, i) == IF i > Len(bs) THEN << >> ELSE <<bs[i].id>> \o IdSeq(bs, i + 1)

ExitedIds(bs) == IdSeq(SelectSeq(bs, leftTop), 1)

\* p.life -= 0.02 for every particle, then filter(p => p.life > 0)
keepParticle(p) == p.life > 0

stepParticles(ps) ==
    SelectSeq([i \in 1..Len(ps) |-> [ps[i] EXCEPT !.life = @ - ParticleDecay]], keepParticle)

\* state.screenShake *= 0.9; if (state.screenShake < 0.5) state.screenShake = 0
decayShake(shake) ==
    IF shake > 0
    THEN LET next == (shake * 9) \div 10 IN IF next < 500 THEN 0 ELSE next
    ELSE shake

\* fault: a tick that spawns whatever time has passed since the last spawn
beforeBubbles_everyTick(gs, cp, reps, pops, m, dims, rnd) ==
    LET g1 == [gs EXCEPT !.screenShake = decayShake(@),
                         !.messageTimer = IF @ > 0 THEN @ - 1 ELSE @]
        g2 == [spawnBubble(m, g1, dims, rnd) EXCEPT !.sinceSpawn = 0]
        pops2 == IF Len(g2.bubbles) > Len(g1.bubbles)
                 THEN [pops EXCEPT ![g2.bubbles[Len(g2.bubbles)].id] = 0] ELSE pops
    IN [gs |-> g2, arr |-> g2.bubbles, detached |-> FALSE, cp |-> cp,
        reports |-> reps, calls |-> << >>, log |-> << >>, pops |-> pops2,
        exited |-> << >>]

\* gameLoop(time) from the shake to the spawn: the world the bubble loop starts on.
\* gs already holds the elapsed time since the last spawn as of `time`.
beforeBubbles(gs, cp, reps, pops, m, dims, rnd) ==
    LET g1 == [gs EXCEPT !.screenShake = decayShake(@),
                         !.messageTimer = IF @ > 0 THEN @ - 1 ELSE @]
        spawnRate == SPAWN_RATE_MS * currentLevel(g1.levelIndex).spawnMod
        due == g1.sinceSpawn * 100 > spawnRate
        g2 == IF due THEN [spawnBubble(m, g1, dims, rnd) EXCEPT !.sinceSpawn = 0] ELSE g1
        pops2 == IF due /\ Len(g2.bubbles) > Len(g1.bubbles)
                 THEN [pops EXCEPT ![g2.bubbles[Len(g2.bubbles)].id] = 0] ELSE pops
    IN [gs |-> g2, arr |-> g2.bubbles, detached |-> FALSE, cp |-> cp,
        reports |-> reps, calls |-> << >>, log |-> << >>, pops |-> pops2,
        exited |-> << >>]

afterBubbles_resetsStable(w) ==
    [w EXCEPT !.gs = [w.gs EXCEPT !.bubbles = filterBubbles(BubblesNow(w)),
                                  !.particles = stepParticles(@),
                                  !.lastStablePos = Sentinel],
              !.exited = ExitedIds(BubblesNow(w))]

\* gameLoop(time) after the bubble loop: the two filters
afterBubbles(w) ==
    [w EXCEPT !.gs = [w.gs EXCEPT !.bubbles = filterBubbles(BubblesNow(w)),
                                  !.particles = stepParticles(@)],
              !.exited = ExitedIds(BubblesNow(w))]

(***************************************************************************)
(* GameCanvas.tsx: the camera input path                                   *)
(*                                                                         *)
(* Normalized landmark coordinates are held in hundredths.  getCoverRect   *)
(* and mapLandmarkToStage are computed in exact fractions: their results   *)
(* are numerators over the denominator den they return.  The filter works  *)
(* on stage points in tenths of a pixel, velocities in pixels per second,  *)
(* cutoff frequencies in thousandths of a hertz and smoothing coefficients *)
(* in thousandths, with 2 * pi taken as 6.283.                             *)
(***************************************************************************)
CAMERA_MIRRORED == TRUE

\* the unit of a normalized coordinate: 1.0 is NormOne hundredths
NormOne == 100

\* clampToStage's default margin, 4 pixels
ClampMargin == 40

\* applyDeadzone's threshold, 2.0 pixels
DeadzonePx == 20

\* new OneEuroFilter({ minCutoff: 1.6, beta: 0.06, dCutoff: 1.0 })
MinCutoff == 1600

\* beta, in thousandths of a hertz per pixel per second
Beta == 60

DCutoff == 1000

NoVideo == [videoWidth |-> 0, videoHeight |-> 0]

getCoverRect_contain(videoW, videoH, stageW, stageH) ==
    IF videoW * stageH < stageW * videoH
    THEN [drawW   |-> 2 * stageH * videoW,
          drawH   |-> 2 * stageH * videoH,
          offsetX |-> stageW * videoH - stageH * videoW,
          offsetY |-> 0,
          den     |-> 2 * videoH]
    ELSE [drawW   |-> 2 * stageW * videoW,
          drawH   |-> 2 * stageW * videoH,
          offsetX |-> 0,
          offsetY |-> stageH * videoW - stageW * videoH,
          den     |-> 2 * videoW]

\* getCoverRect(videoW, videoH, stageW, stageH) for positive dimensions
getCoverRect(videoW, videoH, stageW, stageH) ==
    IF videoW * stageH > stageW * videoH
    THEN [drawW   |-> 2 * stageH * videoW,
          drawH   |-> 2 * stageH * videoH,
          offsetX |-> stageW * videoH - stageH * videoW,
          offsetY |-> 0,
          den     |-> 2 * videoH]
    ELSE [drawW   |-> 2 * stageW * videoW,
          drawH   |-> 2 * stageW * videoH,
          offsetX |-> 0,
          offsetY |-> stageH * videoW - stageW * videoH,
          den     |-> 2 * videoW]

\* the value mapLandmarkToStage returns when a dimension is unknown
Null == [isNull |-> TRUE, x |-> 0, y |-> 0, den |-> 1]

mapLandmark_noOffset(mirrored, normX, normY, vid, stage) ==
    IF vid.videoWidth = 0 \/ vid.videoHeight = 0 \/ stage.width = 0 \/ stage.height = 0
    THEN Null
    ELSE LET vw == vid.videoWidth
             vh == vid.videoHeight
             xN == IF mirrored THEN NormOne - normX ELSE normX
             yN == normY
             rect == getCoverRect(vw, vh, stage.width, stage.height)
             scale == rect.drawW \div vw
         IN [isNull |-> FALSE,
             x   |-> xN * vw * scale,
             y   |-> yN * vh * scale,
             den |-> NormOne * rect.den]

\* mapLandmarkToStage with the mirroring as a parameter.  scale = drawW / vw is
\* scale / den for the integer scale below.
mapLandmark(mirrored, normX, normY, vid, stage) ==
    IF vid.videoWidth = 0 \/ vid.videoHeight = 0 \/ stage.width = 0 \/ stage.height = 0
    THEN Null
    ELSE LET vw == vid.videoWidth
             vh == vid.videoHeight
             xN == IF mirrored THEN NormOne - normX ELSE normX
             yN == normY
             rect == getCoverRect(vw, vh, stage.width, stage.height)
             scale == rect.drawW \div vw
         IN [isNull |-> FALSE,
             x   |-> NormOne * rect.offsetX + xN * vw * scale,
             y   |-> NormOne * rect.offsetY + yN * vh * scale,
             den |-> NormOne * rect.den]

\* mapLandmarkToStage(normX, normY)
mapLandmarkToStage(normX, normY, vid, stage) ==
    mapLandmark(CAMERA_MIRRORED, normX, normY, vid, stage)

\* the stage point, in tenths of a pixel, nearest to a mapped point
toPoint(mapped) ==
    [x |-> (2 * mapped.x + mapped.den) \div (2 * mapped.den),
     y |-> (2 * mapped.y + mapped.den) \div (2 * mapped.den)]

\* clampToStage(p, w, h, 4)
clampToStage(p, w, h) ==
    [x |-> Max(ClampMargin, Min(w - ClampMargin, p.x)),
     y |-> Max(ClampMargin, Min(h - ClampMargin, p.y))]

\* the OneEuroFilter right after its constructor; seeded is FALSE while x and y
\* are null, and since is the time elapsed since its field t, held at 0 until
\* the filter is seeded because update reads dt only afterwards
NewFilter == [seeded |-> FALSE, x |-> 0, y |-> 0, dx |-> 0, dy |-> 0, since |-> 0]

\* the filter dt ms later
ElapseFilter(f, dt) ==
    IF f.seeded THEN [f EXCEPT !.since = Min(Stale, f.since + dt)] ELSE f

RECURSIVE SqrtBetween(_, _, _)
\* the largest r in lo..hi with r * r <= n
SqrtBetween(n, lo, hi) ==
    IF lo = hi THEN lo
    ELSE LET mid == (lo + hi + 1) \div 2
         IN IF mid * mid <= n THEN SqrtBetween(n, mid, hi)
                              ELSE SqrtBetween(n, lo, mid - 1)

\* Math.hypot(a, b), rounded down
hypot(a, b) == SqrtBetween(a * a + b * b, 0, 46340)

\* OneEuroFilter.alpha(cutoff, dt) in thousandths, for dt in ms:
\* 1 / (1 + tau / dt) = 1 - 1 / (1 + 2 * pi * cutoff * dt)
alpha(cutoff, dtms) ==
    LET k == cutoff * dtms
        r == IF k < 300000 THEN (6283 * k) \div 1000000
                           ELSE (6283 * (k \div 10000)) \div 100
    IN 1000 - (1000000 \div (r + 1000))

lowPass_extrapolate(a, prev, value) == value + Round(a * (value - prev), 1000)

\* OneEuroFilter.lowPass(alpha, prev, value)
lowPass(a, prev, value) == prev + Round(a * (value - prev), 1000)

\* OneEuroFilter.update(nx, ny): the filter afterwards and the point returned
update(f, nx, ny) ==
    LET dtms == Max(1, f.since)
    IN IF ~f.seeded
       THEN [f   |-> [f EXCEPT !.seeded = TRUE, !.x = nx, !.y = ny, !.since = 0],
             out |-> [x |-> nx, y |-> ny]]
       ELSE LET rawDx == Round((nx - f.x) * 100, dtms)
                rawDy == Round((ny - f.y) * 100, dtms)
                aD    == alpha(DCutoff, dtms)
                dx    == lowPass(aD, f.dx, rawDx)
                dy    == lowPass(aD, f.dy, rawDy)
                speed == hypot(dx, dy)
                cutoff == MinCutoff + Beta * speed
                a     == alpha(cutoff, dtms)
                x     == lowPass(a, f.x, nx)
                y     == lowPass(a, f.y, ny)
            IN [f   |-> [seeded |-> TRUE, x |-> x, y |-> y, dx |-> dx, dy |-> dy,
                         since |-> 0],
                out |-> [x |-> x, y |-> y]]

applyDeadzone_toPrevious(lastStablePos, newPos) ==
    IF lastStablePos.x = Sentinel.x
    THEN [lastStablePos |-> newPos, out |-> newPos]
    ELSE LET dx == newPos.x - lastStablePos.x
             dy == newPos.y - lastStablePos.y
         IN IF dx * dx + dy * dy < DeadzonePx * DeadzonePx
            THEN [lastStablePos |-> newPos, out |-> lastStablePos]
            ELSE [lastStablePos |-> newPos, out |-> newPos]

\* applyDeadzone(newPos): lastStablePos afterwards and the point returned
applyDeadzone(lastStablePos, newPos) ==
    IF lastStablePos.x = Sentinel.x
    THEN [lastStablePos |-> newPos, out |-> newPos]
    ELSE LET dx == newPos.x - lastStablePos.x
             dy == newPos.y - lastStablePos.y
         IN IF dx * dx + dy * dy < DeadzonePx * DeadzonePx
            THEN [lastStablePos |-> lastStablePos, out |-> lastStablePos]
            ELSE [lastStablePos |-> newPos, out |-> newPos]

\* the fingertip estimate of a hand: tip * 0.85 + dip * 0.15
blend(tip, dip) == Round(85 * tip + 15 * dip, 100)

(***************************************************************************)
(* Inputs                                                                  *)
(***************************************************************************)
\* time between two frame callbacks when frames are delayed (a throttled or stalled tab)
SlowFrames == {1000}

\* time between two frame callbacks at a steady 60 Hz
FastFrames == {16}

\* the Math.random() draws of one spawnBubble call
RandomDraws == [x : {50}, t : {0, 100, 500, 980}, r : {50}, s : {0}]

ZeroSize == [width |-> 0, height |-> 0]

\* sizes the ResizeObserver reports for the wrapper (50 x 10 pixels)
StageSizes == {[width |-> 500, height |-> 100]}

\* positions of the mouse relative to the wrapper
MousePoints == {[x |-> 250, y |-> 90], [x |-> 0, y |-> 0]}

NoHand == [hands |-> 0, tip |-> [x |-> 0, y |-> 0], dip |-> [x |-> 0, y |-> 0]]

\* results.multiHandLandmarks of one result: landmarks 8 (tip) and 7 (dip) of the
\* first hand, in hundredths of the frame
HandSamples ==
    {NoHand,
     [hands |-> 1, tip |-> [x |-> 50, y |-> 50], dip |-> [x |-> 50, y |-> 50]],
     [hands |-> 1, tip |-> [x |-> 0, y |-> 40], dip |-> [x |-> 0, y |-> 60]],
     [hands |-> 1, tip |-> [x |-> 100, y |-> 100], dip |-> [x |-> 80, y |-> 100]]}

NoRect == [drawW |-> 0, drawH |-> 0, offsetX |-> 0, offsetY |-> 0, den |-> 1]

\* no call of the mapping helpers yet.  clamped is what the filter was given,
\* filtered what it returned and the stabilizer was given, stable what the
\* stabilizer returned and prev what it was given the time before.
NoMap == [op |-> "none", n |-> 0, mirrored |-> CAMERA_MIRRORED, normX |-> 0, normY |-> 0,
          rect |-> NoRect, mapped |-> Null, clamped |-> Sentinel, filtered |-> Sentinel,
          stable |-> Sentinel, prev |-> Sentinel]

NoCall == [op |-> "none", arg |-> 0, m |-> "LEVELS", ok |-> TRUE, ret |-> 0,
           cpB |-> NoRecord, scB |-> NoScores]

(***************************************************************************)
(* VisionService (src/unnamed/part_000)                                    *)
(*                                                                         *)
(* The instance's fields, and the calls of its async methods that are      *)
(* waiting at an await:                                                    *)
(*   stalled     performance.now() - lastResultTime > STALL_THRESHOLD_MS   *)
(*   srcObject   "none" (null), "live" (a stream with a live, enabled      *)
(*               video track) or "dead" (a stream with none)               *)
(*   restarts    executions of restartPipeline waiting for hands.close()   *)
(*               or videoElement.play()                                    *)
(*   awaitMedia  executions of start waiting for getUserMedia              *)
(*   frame       what the latest processFrame did with its frame           *)
(*   found       what the latest watchdog callback found                   *)
(* The application creates one instance and has one video element.         *)
(***************************************************************************)
NewVisionService ==
    [isRunning    |-> FALSE,
     isRestarting |-> FALSE,
     hands        |-> "null",
     videoElement |-> FALSE,
     srcObject    |-> "none",
     stalled      |-> FALSE,
     restarts     |-> 0,
     awaitMedia   |-> 0,
     frame        |-> "none",
     found        |-> "none"]

\* what no action of the service touches
notVision == <<mode, gameState, stageDimensions, isPaused, effectIsPaused, mounted, raf,
               music, reports, lsCheckpoint, lsScores, popLog, popCount, exitLog, lastCall,
               appStatus, ticks, video, oneEuroFilter, lastMap>>

\* start(videoElement), step 3: start the frame loop
startFrameLoop(v) ==
    IF ~v.isRunning THEN [v EXCEPT !.isRunning = TRUE, !.stalled = FALSE] ELSE v

\* start(videoElement) up to its first wait; initOk: initMediaPipe does not throw.
\* With hands null, initMediaPipe runs without waiting.
start(v, initOk) ==
    IF v.isRunning /\ v.videoElement THEN v
    ELSE LET v1 == [v EXCEPT !.videoElement = TRUE]
             v2 == IF v1.hands = "null" /\ initOk THEN [v1 EXCEPT !.hands = "ready"] ELSE v1
         IN IF v1.hands = "null" /\ ~initOk THEN v1
            ELSE IF v2.srcObject = "none" THEN [v2 EXCEPT !.awaitMedia = @ + 1]
            ELSE startFrameLoop(v2)

\* fault: restartPipeline() without the test of isRestarting
restartPipeline_noGuard(v) ==
    [v EXCEPT !.isRestarting = TRUE, !.restarts = @ + 1]

\* restartPipeline() up to its first wait
restartPipeline(v) ==
    IF v.isRestarting THEN v
    ELSE [v EXCEPT !.isRestarting = TRUE, !.restarts = @ + 1]

\* App.startCamera(): START CAMERA in the menu
startCamera ==
    /\ vision.awaitMedia < MaxPending
    /\ \E initOk \in BOOLEAN : vision' = start(vision, initOk)
    /\ UNCHANGED notVision

\* getUserMedia resolves: start goes on to the end; playOk: play() resolves
getUserMediaResolves ==
    /\ vision.awaitMedia > 0
    /\ \E playOk \in BOOLEAN :
          LET v1 == [vision EXCEPT !.awaitMedia = @ - 1, !.srcObject = "live"]
          IN vision' = IF playOk THEN startFrameLoop(v1) ELSE v1
    /\ UNCHANGED notVision

\* getUserMedia rejects: start alerts and returns
getUserMediaRejects ==
    /\ vision.awaitMedia > 0
    /\ vision' = [vision EXCEPT !.awaitMedia = @ - 1]
    /\ UNCHANGED notVision

\* the camera's video track ends (device unplugged, permission revoked)
trackEnds ==
    /\ vision.srcObject = "live"
    /\ vision' = [vision EXCEPT !.srcObject = "dead"]
    /\ UNCHANGED notVision

\* STALL_THRESHOLD_MS pass without a result
noResults ==
    /\ vision.isRunning
    /\ ~vision.stalled
    /\ vision' = [vision EXCEPT !.stalled = TRUE]
    /\ UNCHANGED notVision

\* the interval callback startWatchdog() installs; initOk is passed on to start
watchdog(v, initOk) ==
    IF ~v.isRunning \/ v.isRestarting \/ ~v.videoElement THEN [v EXCEPT !.found = "idle"]
    ELSE IF v.stalled THEN restartPipeline([v EXCEPT !.found = "stalled"])
    ELSE IF v.srcObject = "dead" THEN start([v EXCEPT !.found = "dead"], initOk)
    ELSE [v EXCEPT !.found = "alive"]

\* the timer set by startWatchdog() fires
startWatchdog ==
    /\ vision.restarts < MaxPending
    /\ vision.awaitMedia < MaxPending
    /\ \E initOk \in BOOLEAN : vision' = watchdog(vision, initOk)
    /\ UNCHANGED notVision

\* the visibilitychange listener, with the tab visible
visibilitychange ==
    /\ vision.isRunning
    /\ vision.restarts < MaxPending
    /\ vision' = restartPipeline([vision EXCEPT !.stalled = FALSE])
    /\ UNCHANGED notVision

\* a direct call of restartPipeline()
callRestartPipeline ==
    /\ vision.restarts < MaxPending
    /\ vision' = restartPipeline(vision)
    /\ UNCHANGED notVision

\* a waiting restartPipeline() goes on to its end; initOk: initMediaPipe did not
\* throw.  The finally block runs either way.
restartPipelineEnds ==
    /\ vision.restarts > 0
    /\ \E initOk \in BOOLEAN :
          vision' = [vision EXCEPT !.restarts = @ - 1,
                                   !.hands = IF initOk THEN "ready" ELSE "null",
                                   !.stalled = IF initOk THEN FALSE ELSE @,
                                   !.isRestarting = FALSE]
    /\ UNCHANGED notVision

\* processFrame(): one callback of the service's frame loop; ready: the video's
\* readyState is at least 2; result: the detector answers the frame (handleResults
\* runs) before the threshold
processFrame ==
    /\ vision.isRunning
    /\ \E result \in BOOLEAN, ready \in BOOLEAN :
          vision' = IF vision.isRestarting \/ ~vision.videoElement \/ vision.hands = "null"
                       \/ ~ready
                    THEN [vision EXCEPT !.frame = "skipped"]
                    ELSE [vision EXCEPT !.frame = "sent",
                                        !.stalled = IF result THEN FALSE ELSE @]
    /\ UNCHANGED notVision

VisionNext ==
    \/ startCamera
    \/ getUserMediaResolves
    \/ getUserMediaRejects
    \/ trackEnds
    \/ noResults
    \/ startWatchdog
    \/ visibilitychange
    \/ callRestartPipeline
    \/ restartPipelineEnds
    \/ processFrame

(***************************************************************************)
(* The session: Init is the state after the first render and the effects   *)
(***************************************************************************)
\* prop initialLevel
Init ==
    /\ mode \in {"LEVELS", "INFINITE"}
    /\ \E lvl \in {1, 3} :
          /\ gameState = InitialGameState(mode, IF mode = "LEVELS" THEN lvl ELSE 1)
          /\ lsCheckpoint \in (IF lvl = 1 THEN {NoRecord, Stored("num", 6)}
                                          ELSE {Stored("num", 2 * lvl)})
    /\ stageDimensions = ZeroSize
    /\ isPaused = FALSE
    /\ effectIsPaused = isPaused
    /\ mounted = TRUE
    /\ raf = TRUE
    /\ music = "playing"
    /\ reports = << >>
    /\ lsScores = NoScores
    /\ popLog = << >>
    /\ popCount = [i \in 1..MaxBubbles |-> 0]
    /\ exitLog = << >>
    /\ lastCall = NoCall
    /\ appStatus = "PLAYING"
    /\ ticks = 0
    /\ video = NoVideo
    /\ vision = NewVisionService
    /\ oneEuroFilter = NewFilter
    /\ lastMap = NoMap

\* the clock advances by dt
Elapse(gs, dt) ==
    [gs EXCEPT !.sinceSpawn = Min(Stale, @ + dt), !.sinceHand = Min(Stale, @ + dt)]

\* a spawn is due at this tick
SpawnDue(gs) == gs.sinceSpawn * 100 > SPAWN_RATE_MS * currentLevel(gs.levelIndex).spawnMod

gameLoop_noDimCheck(dt, rnd, writeOk) ==
    /\ raf
    /\ LET gs == Elapse(gameState, dt)
       IN IF effectIsPaused
          THEN /\ gameState' = gs
               /\ raf' = TRUE
               /\ popLog' = << >> /\ exitLog' = << >>
               /\ UNCHANGED <<reports, lsCheckpoint, popCount, appStatus>>
          ELSE IF gs.status # "PLAYING"
          THEN /\ gameState' = gs
               /\ raf' = FALSE
               /\ popLog' = << >> /\ exitLog' = << >>
               /\ UNCHANGED <<reports, lsCheckpoint, popCount, appStatus>>
          ELSE /\ SpawnDue(gs) => Len(gs.bubbles) < MaxBubbles
               /\ \E w0 \in {beforeBubbles(gs, lsCheckpoint, reports, popCount, mode,
                                           stageDimensions, rnd)} :
                  \E w1 \in {forEachBubble(w0, 1, mode, writeOk)} :
                  \E w \in {afterBubbles(w1)} :
                     /\ gameState' = w.gs
                     /\ lsCheckpoint' = w.cp
                     /\ reports' = w.reports
                     /\ popLog' = w.log
                     /\ popCount' = w.pops
                     /\ exitLog' = w.exited
                     /\ appStatus' = IF Len(w.reports) > Len(reports) THEN "GAME_OVER" ELSE appStatus
                     /\ raf' = TRUE
    /\ oneEuroFilter' = ElapseFilter(oneEuroFilter, dt)
    /\ UNCHANGED <<video, vision, lastMap, mode, stageDimensions, isPaused, effectIsPaused, mounted,
                   music, lsScores, lastCall>>

\* gameLoop(time), dt after the previous callback; the browser runs it when a
\* frame callback is pending
gameLoop(dt, rnd, writeOk) ==
    /\ raf
    /\ LET gs == Elapse(gameState, dt)
       IN IF effectIsPaused
          THEN /\ gameState' = gs
               /\ raf' = TRUE
               /\ popLog' = << >> /\ exitLog' = << >>
               /\ UNCHANGED <<reports, lsCheckpoint, popCount, appStatus>>
          ELSE IF gs.status # "PLAYING"
          THEN /\ gameState' = gs
               /\ raf' = FALSE
               /\ popLog' = << >> /\ exitLog' = << >>
               /\ UNCHANGED <<reports, lsCheckpoint, popCount, appStatus>>
          ELSE IF stageDimensions.width = 0 \/ stageDimensions.height = 0
          THEN /\ gameState' = gs
               /\ raf' = TRUE
               /\ popLog' = << >> /\ exitLog' = << >>
               /\ UNCHANGED <<reports, lsCheckpoint, popCount, appStatus>>
          ELSE /\ SpawnDue(gs) => Len(gs.bubbles) < MaxBubbles
               /\ \E w0 \in {beforeBubbles(gs, lsCheckpoint, reports, popCount, mode,
                                           stageDimensions, rnd)} :
                  \E w1 \in {forEachBubble(w0, 1, mode, writeOk)} :
                  \E w \in {afterBubbles(w1)} :
                     /\ gameState' = w.gs
                     /\ lsCheckpoint' = w.cp
                     /\ reports' = w.reports
                     /\ popLog' = w.log
                     /\ popCount' = w.pops
                     /\ exitLog' = w.exited
                     /\ appStatus' = IF Len(w.reports) > Len(reports) THEN "GAME_OVER" ELSE appStatus
                     /\ raf' = TRUE
    /\ oneEuroFilter' = ElapseFilter(oneEuroFilter, dt)
    /\ UNCHANGED <<video, vision, lastMap, mode, stageDimensions, isPaused, effectIsPaused, mounted,
                   music, lsScores, lastCall>>

Tick ==
    /\ ticks < MaxTicks
    /\ ticks' = ticks + 1
    /\ \E dt \in SlowFrames, rnd \in RandomDraws, writeOk \in BOOLEAN :
          gameLoop(dt, rnd, writeOk)

handleMouseMove_inclusive(p) ==
    /\ mounted
    /\ IF gameState.sinceHand >= 500
       THEN gameState' = [gameState EXCEPT !.inputType = "MOUSE", !.fingerPos = p]
       ELSE UNCHANGED gameState
    /\ UNCHANGED <<inputVars, mode, stageDimensions, isPaused, effectIsPaused, mounted, raf, music,
                   reports, lsCheckpoint, lsScores, popLog, popCount, exitLog, lastCall,
                   appStatus, ticks>>

\* handleMouseMove(e)
handleMouseMove(p) ==
    /\ mounted
    /\ IF gameState.sinceHand > 500
       THEN gameState' = [gameState EXCEPT !.inputType = "MOUSE", !.fingerPos = p]
       ELSE UNCHANGED gameState
    /\ UNCHANGED <<inputVars, mode, stageDimensions, isPaused, effectIsPaused, mounted, raf, music,
                   reports, lsCheckpoint, lsScores, popLog, popCount, exitLog, lastCall,
                   appStatus, ticks>>

MouseMove == \E p \in MousePoints : handleMouseMove(p)

\* fault: a pause that cancels the pending frame and a resume that requests one
handlePauseToggle_cancelsFrame(paused) ==
    /\ isPaused' = ~paused
    /\ raf' = paused
    /\ music' = IF music = "stopped" THEN music ELSE IF paused THEN "playing" ELSE "paused"
    /\ UNCHANGED <<inputVars, mode, gameState, stageDimensions, effectIsPaused, mounted,
                   reports, lsCheckpoint, lsScores, popLog, popCount, exitLog, lastCall,
                   appStatus, ticks>>

\* handlePauseToggle() as a closure that sees `paused` for isPaused
handlePauseToggle(paused) ==
    /\ isPaused' = ~paused
    /\ music' = IF music = "stopped" THEN music ELSE IF paused THEN "playing" ELSE "paused"
    /\ UNCHANGED <<inputVars, mode, gameState, stageDimensions, effectIsPaused, mounted, raf,
                   reports, lsCheckpoint, lsScores, popLog, popCount, exitLog, lastCall,
                   appStatus, ticks>>

\* click on the II / play button (level mode) or on RESUME (pause overlay)
PauseButton ==
    /\ mounted
    /\ mode = "LEVELS" \/ isPaused
    /\ handlePauseToggle(isPaused)

\* handleKeyDown(e) with e.key = 'Escape': the handler the effect registered
KeyEscape ==
    /\ mounted
    /\ handlePauseToggle(effectIsPaused)

\* handleRestartLevel(): RESTART LEVEL on the pause overlay
handleRestartLevel ==
    /\ mounted
    /\ isPaused
    /\ isPaused' = FALSE
    /\ music' = IF music = "stopped" THEN music ELSE "playing"
    /\ gameState' = restartLevel(gameState)
    /\ UNCHANGED <<inputVars, mode, stageDimensions, effectIsPaused, mounted, raf,
                   reports, lsCheckpoint, lsScores, popLog, popCount, exitLog, lastCall,
                   appStatus, ticks>>

handleExit_keepsFrame ==
    /\ mounted
    /\ mode = "INFINITE" \/ isPaused
    /\ appStatus = "PLAYING"
    /\ music' = "stopped"
    /\ appStatus' = "MENU"
    /\ mounted' = FALSE
    /\ raf' = raf
    /\ UNCHANGED <<inputVars, mode, gameState, stageDimensions, isPaused, effectIsPaused,
                   reports, lsCheckpoint, lsScores, popLog, popCount, exitLog, lastCall, ticks>>

\* handleExit(): EXIT (endless mode) or EXIT TO MENU (pause overlay).  onExit sets
\* App's status in a click handler, so React re-renders App without GameCanvas and
\* runs the effect's cleanup before the handler's task ends.
handleExit ==
    /\ mounted
    /\ mode = "INFINITE" \/ isPaused
    /\ appStatus = "PLAYING"
    /\ music' = "stopped"
    /\ appStatus' = "MENU"
    /\ mounted' = FALSE
    /\ raf' = FALSE
    /\ UNCHANGED <<inputVars, mode, gameState, stageDimensions, isPaused, effectIsPaused,
                   reports, lsCheckpoint, lsScores, popLog, popCount, exitLog, lastCall, ticks>>

\* the effect's cleanup, run when App renders the game-over screen instead of GameCanvas
Unmount ==
    /\ mounted
    /\ appStatus = "GAME_OVER"
    /\ mounted' = FALSE
    /\ raf' = FALSE
    /\ UNCHANGED <<inputVars, mode, gameState, stageDimensions, isPaused, effectIsPaused, music,
                   reports, lsCheckpoint, lsScores, popLog, popCount, exitLog, lastCall,
                   appStatus, ticks>>

\* the ResizeObserver callback, reporting size d
ResizeTo(d) ==
    /\ mounted
    /\ stageDimensions' = d
    /\ UNCHANGED <<inputVars, mode, gameState, isPaused, effectIsPaused, mounted, raf, music,
                   reports, lsCheckpoint, lsScores, popLog, popCount, exitLog, lastCall,
                   appStatus, ticks>>

Resize == \E d \in StageSizes : ResizeTo(d)

Next ==
    \/ Tick
    \/ MouseMove
    \/ PauseButton
    \/ KeyEscape
    \/ handleRestartLevel
    \/ handleExit
    \/ Unmount
    \/ Resize

Spec == Init /\ [][Next]_vars

(***************************************************************************)
(* The session at a steady frame rate with the pointer left where it is:   *)
(* bubbles spawn, rise and leave through the top.  requestAnimationFrame   *)
(* runs a pending callback, hence the weak fairness of the tick.           *)
(***************************************************************************)
LiveTick ==
    /\ UNCHANGED ticks
    /\ \E dt \in FastFrames, rnd \in RandomDraws, writeOk \in BOOLEAN :
          gameLoop(dt, rnd, writeOk)

LiveNext ==
    \/ LiveTick
    \/ Resize

LiveSpec == Init /\ [][LiveNext]_vars /\ WF_vars(LiveTick)

(***************************************************************************)
(* The session on a wrapper that collapses and comes back                  *)
(***************************************************************************)
CollapseResize == \E d \in StageSizes \cup {ZeroSize} : ResizeTo(d)

CollapseNext ==
    \/ Tick
    \/ MouseMove
    \/ CollapseResize

CollapseSpec == Init /\ [][CollapseNext]_vars

(***************************************************************************)
(* The pointer: hand results, mouse moves, resizes and the clock, in any   *)
(* order.  The frame callback only reads the pointer.                      *)
(***************************************************************************)
onHandResults_onNull(results) ==
    /\ mounted
    /\ IF results.hands = 0
       THEN UNCHANGED <<gameState, oneEuroFilter, lastMap>>
       ELSE LET normX == blend(results.tip.x, results.dip.x)
                normY == blend(results.tip.y, results.dip.y)
                mapped == mapLandmarkToStage(normX, normY, video, stageDimensions)
                clamped == clampToStage(toPoint(mapped), stageDimensions.width,
                                        stageDimensions.height)
            IN \E u \in {update(oneEuroFilter, clamped.x, clamped.y)} :
               \E d \in {applyDeadzone(gameState.lastStablePos, u.out)} :
                  /\ gameState' = [gameState EXCEPT !.inputType = "CAMERA",
                                                    !.sinceHand = 0,
                                                    !.lastStablePos = d.lastStablePos,
                                                    !.fingerPos = d.out]
                  /\ oneEuroFilter' = u.f
                  /\ lastMap' = [op |-> "onHandResults", n |-> lastMap.n + 1,
                                 mirrored |-> CAMERA_MIRRORED,
                                 normX |-> normX, normY |-> normY, rect |-> NoRect,
                                 mapped |-> mapped, clamped |-> clamped,
                                 filtered |-> u.out, stable |-> d.out,
                                 prev |-> lastMap.filtered]
    /\ UNCHANGED <<video, vision, mode, stageDimensions, isPaused, effectIsPaused, mounted, raf, music,
                   reports, lsCheckpoint, lsScores, popLog, popCount, exitLog, lastCall,
                   appStatus, ticks>>

\* onHandResults(results): the callback registered with the vision service
onHandResults(results) ==
    /\ mounted
    /\ IF results.hands = 0
       THEN UNCHANGED <<gameState, oneEuroFilter, lastMap>>
       ELSE LET normX == blend(results.tip.x, results.dip.x)
                normY == blend(results.tip.y, results.dip.y)
                mapped == mapLandmarkToStage(normX, normY, video, stageDimensions)
                seen == [gameState EXCEPT !.inputType = "CAMERA", !.sinceHand = 0]
            IN IF mapped.isNull
               THEN /\ gameState' = seen
                    /\ oneEuroFilter' = oneEuroFilter
                    /\ lastMap' = [op |-> "onHandResults", n |-> lastMap.n + 1,
                                   mirrored |-> CAMERA_MIRRORED,
                                   normX |-> normX, normY |-> normY, rect |-> NoRect,
                                   mapped |-> mapped, clamped |-> Sentinel,
                                   filtered |-> Sentinel, stable |-> Sentinel,
                                   prev |-> lastMap.filtered]
               ELSE \E clamped \in {clampToStage(toPoint(mapped), stageDimensions.width,
                                                 stageDimensions.height)} :
                    \E u \in {update(oneEuroFilter, clamped.x, clamped.y)} :
                    \E d \in {applyDeadzone(gameState.lastStablePos, u.out)} :
                       /\ gameState' = [seen EXCEPT !.lastStablePos = d.lastStablePos,
                                                    !.fingerPos = d.out]
                       /\ oneEuroFilter' = u.f
                       /\ lastMap' = [op |-> "onHandResults", n |-> lastMap.n + 1,
                                      mirrored |-> CAMERA_MIRRORED,
                                      normX |-> normX, normY |-> normY, rect |-> NoRect,
                                      mapped |-> mapped, clamped |-> clamped,
                                      filtered |-> u.out, stable |-> d.out,
                                      prev |-> lastMap.filtered]
    /\ UNCHANGED <<video, vision, mode, stageDimensions, isPaused, effectIsPaused, mounted, raf, music,
                   reports, lsCheckpoint, lsScores, popLog, popCount, exitLog, lastCall,
                   appStatus, ticks>>

\* the vision service delivers one result
HandResults ==
    /\ lastMap.n < MaxSamples
    /\ \E results \in HandSamples : onHandResults(results)

\* the video element learns the size of the camera stream
\* sizes of the stream the camera delivers (1280 x 720 is asked for as ideal)
VideoMetadata ==
    /\ video = NoVideo
    /\ video' \in {[videoWidth |-> 640, videoHeight |-> 480], [videoWidth |-> 1280, videoHeight |-> 720]}
    /\ UNCHANGED <<vision, oneEuroFilter, lastMap, mode, gameState, stageDimensions, isPaused,
                   effectIsPaused, mounted, raf, music, reports, lsCheckpoint, lsScores,
                   popLog, popCount, exitLog, lastCall, appStatus, ticks>>

\* performance.now() advances by dt between two events
Wait(dt) ==
    /\ mounted
    /\ gameState' = Elapse(gameState, dt)
    /\ oneEuroFilter' = ElapseFilter(oneEuroFilter, dt)
    /\ UNCHANGED <<video, vision, lastMap, mode, stageDimensions, isPaused, effectIsPaused, mounted,
                   raf, music, reports, lsCheckpoint, lsScores, popLog, popCount, exitLog,
                   lastCall, appStatus, ticks>>

\* times between two events around the 500 ms window
TimePasses == \E dt \in {250, 251} : Wait(dt)

\* sizes the ResizeObserver reports while the window is resized (50 x 10, then
\* 30 x 10 pixels), or while the wrapper is collapsed (30 x 0, 0 x 0)
CameraResize ==
    \E d \in {[width |-> 500, height |-> 100], [width |-> 300, height |-> 100],
              [width |-> 300, height |-> 0], ZeroSize} : ResizeTo(d)

InputNext ==
    \/ HandResults
    \/ MouseMove
    \/ CameraResize
    \/ VideoMetadata
    \/ TimePasses

\* an endless session right after the first render
InputInit == Init /\ mode = "INFINITE" /\ lsCheckpoint = NoRecord

InputSpec == InputInit /\ [][InputNext]_vars

(***************************************************************************)
(* The session with every source of events, up to and after its teardown   *)
(***************************************************************************)
\* a frame callback of a short session
ShortTick ==
    /\ ticks < MaxShortTicks
    /\ ticks' = ticks + 1
    /\ \E dt \in SlowFrames, rnd \in RandomDraws, writeOk \in BOOLEAN :
          gameLoop(dt, rnd, writeOk)

TeardownNext ==
    \/ ShortTick
    \/ MouseMove
    \/ PauseButton
    \/ KeyEscape
    \/ handleRestartLevel
    \/ handleExit
    \/ Unmount
    \/ Resize
    \/ HandResults
    \/ VideoMetadata

TeardownSpec == InputInit /\ [][TeardownNext]_vars

(***************************************************************************)
(* The session under a player who keeps pressing Escape: ticks, resizes,   *)
(* mouse moves and clicks on the pause button happen or not, and a press   *)
(* of Escape that would change anything is not put off for ever.           *)
(***************************************************************************)
EscapeNext == ShortTick \/ KeyEscape \/ PauseButton \/ Resize \/ MouseMove

EscapeSpec == Init /\ [][EscapeNext]_vars /\ WF_vars(KeyEscape)

(***************************************************************************)
(* The vision service on its own: the camera is started from the menu, the *)
(* stream can die, results can stop coming, the tab can come back.         *)
(***************************************************************************)
VisionSpec == InputInit /\ [][VisionNext]_vars

(***************************************************************************)
(* The mapping helpers applied to any video size and stage size            *)
(***************************************************************************)
\* normalized coordinates, in hundredths
NormCoords == {0, 50, 100}

\* the stage sizes are in tenths of a pixel: 1280 x 720 and 720 x 1280 pixels,
\* the 4:3 stage of 96 x 72 pixels, and small ones; the video sizes are
\* landscape, portrait, square and tiny
MapperInit ==
    /\ mode = "LEVELS"
    /\ gameState = InitialGameState(mode, 1)
    /\ stageDimensions \in
          {[width |-> 12800, height |-> 7200], [width |-> 7200, height |-> 12800],
           [width |-> 960, height |-> 720], [width |-> 500, height |-> 100],
           [width |-> 10, height |-> 10]}
    /\ isPaused = FALSE
    /\ effectIsPaused = FALSE
    /\ mounted = TRUE
    /\ raf = TRUE
    /\ music = "playing"
    /\ reports = << >>
    /\ lsCheckpoint = NoRecord
    /\ lsScores = NoScores
    /\ popLog = << >>
    /\ popCount = [i \in 1..MaxBubbles |-> 0]
    /\ exitLog = << >>
    /\ lastCall = NoCall
    /\ appStatus = "PLAYING"
    /\ ticks = 0
    /\ video \in
          {[videoWidth |-> 640, videoHeight |-> 480], [videoWidth |-> 480, videoHeight |-> 640],
           [videoWidth |-> 320, videoHeight |-> 320], [videoWidth |-> 3, videoHeight |-> 2],
           [videoWidth |-> 1, videoHeight |-> 1]}
    /\ vision = NewVisionService
    /\ oneEuroFilter = NewFilter
    /\ lastMap = NoMap

\* getCoverRect(vw, vh, stageW, stageH) on the current sizes
CallGetCoverRect ==
    /\ lastMap' = [NoMap EXCEPT !.op = "getCoverRect",
                                !.rect = getCoverRect(video.videoWidth, video.videoHeight,
                                                      stageDimensions.width,
                                                      stageDimensions.height)]
    /\ UNCHANGED <<video, vision, oneEuroFilter, mode, gameState, stageDimensions, isPaused,
                   effectIsPaused, mounted, raf, music, reports, lsCheckpoint, lsScores,
                   popLog, popCount, exitLog, lastCall, appStatus, ticks>>

\* mapLandmarkToStage(normX, normY) on the current sizes, mirrored or not
CallMapLandmark ==
    /\ \E mirrored \in BOOLEAN, normX \in NormCoords, normY \in NormCoords :
          lastMap' = [NoMap EXCEPT !.op = "mapLandmarkToStage",
                                   !.mirrored = mirrored,
                                   !.normX = normX,
                                   !.normY = normY,
                                   !.rect = getCoverRect(video.videoWidth, video.videoHeight,
                                                         stageDimensions.width,
                                                         stageDimensions.height),
                                   !.mapped = mapLandmark(mirrored, normX, normY, video,
                                                          stageDimensions)]
    /\ UNCHANGED <<video, vision, oneEuroFilter, mode, gameState, stageDimensions, isPaused,
                   effectIsPaused, mounted, raf, music, reports, lsCheckpoint, lsScores,
                   popLog, popCount, exitLog, lastCall, appStatus, ticks>>

MapperNext ==
    \/ CallGetCoverRect
    \/ CallMapLandmark

MapperSpec == MapperInit /\ [][MapperNext]_vars

(***************************************************************************)
(* The stabilizer applied to any sequence of points                        *)
(***************************************************************************)
\* points 1.0, 1.5, 2.0 and 3.0 pixels right of (10, 10), one 1.98 pixels away
\* on the diagonal and one 2.0 pixels above
DeadzonePoints ==
    {[x |-> 100, y |-> 100], [x |-> 110, y |-> 100], [x |-> 115, y |-> 100],
     [x |-> 120, y |-> 100], [x |-> 130, y |-> 100], [x |-> 114, y |-> 114],
     [x |-> 100, y |-> 80]}

\* applyDeadzone(newPos) on the current last stable point
CallApplyDeadzone ==
    /\ lastMap.n < MaxCalls
    /\ \E newPos \in DeadzonePoints :
       \E d \in {applyDeadzone(gameState.lastStablePos, newPos)} :
          /\ gameState' = [gameState EXCEPT !.lastStablePos = d.lastStablePos]
          /\ lastMap' = [NoMap EXCEPT !.op = "applyDeadzone",
                                      !.n = lastMap.n + 1,
                                      !.filtered = newPos,
                                      !.stable = d.out,
                                      !.prev = lastMap.filtered]
    /\ UNCHANGED <<video, vision, oneEuroFilter, mode, stageDimensions, isPaused, effectIsPaused,
                   mounted, raf, music, reports, lsCheckpoint, lsScores, popLog, popCount,
                   exitLog, lastCall, appStatus, ticks>>

DeadzoneNext == CallApplyDeadzone

DeadzoneSpec == InputInit /\ [][DeadzoneNext]_vars

(***************************************************************************)
(* The filter applied to any sequence of points at any pace                *)
(***************************************************************************)
\* raw inputs of the filter
FilterPoints == {[x |-> 100, y |-> 100], [x |-> 300, y |-> 100], [x |-> 460, y |-> 40]}

\* oneEuroFilter.current.update(nx, ny), dt after the previous call
\* times between two calls of update: the same millisecond, one frame at 60 Hz,
\* a quarter of a second, a second
CallUpdate ==
    /\ lastMap.n < MaxCalls
    /\ \E dt \in {0, 16, 250, 1000}, p \in FilterPoints :
       \E u \in {update(ElapseFilter(oneEuroFilter, dt), p.x, p.y)} :
          /\ oneEuroFilter' = u.f
          /\ lastMap' = [NoMap EXCEPT !.op = "update",
                                      !.n = lastMap.n + 1,
                                      !.clamped = p,
                                      !.filtered = u.out,
                                      !.prev = lastMap.clamped]
    /\ UNCHANGED <<video, vision, mode, gameState, stageDimensions, isPaused, effectIsPaused,
                   mounted, raf, music, reports, lsCheckpoint, lsScores, popLog, popCount,
                   exitLog, lastCall, appStatus, ticks>>

FilterNext == CallUpdate

FilterSpec == InputInit /\ [][FilterNext]_vars

(***************************************************************************)
(* Spawns of an endless session at any score                               *)
(***************************************************************************)
\* the highest score of the range
ScoreTop == 8000

\* cumulative scores of an endless session
EndlessScores == {400 * k : k \in 0..(ScoreTop \div 400)}

DifficultyInit ==
    /\ mode = "INFINITE"
    /\ \E score \in EndlessScores :
          gameState = [InitialGameState(mode, 1) EXCEPT !.score = score]
    /\ stageDimensions \in StageSizes
    /\ isPaused = FALSE
    /\ effectIsPaused = FALSE
    /\ mounted = TRUE
    /\ raf = TRUE
    /\ music = "playing"
    /\ reports = << >>
    /\ lsCheckpoint = NoRecord
    /\ lsScores = NoScores
    /\ popLog = << >>
    /\ popCount = [i \in 1..MaxBubbles |-> 0]
    /\ exitLog = << >>
    /\ lastCall = NoCall
    /\ appStatus = "PLAYING"
    /\ ticks = 0
    /\ video = NoVideo
    /\ vision = NewVisionService
    /\ oneEuroFilter = NewFilter
    /\ lastMap = NoMap

\* spawnBubble() at the current score
CallSpawnBubble ==
    /\ Len(gameState.bubbles) < MaxBubbles
    /\ \E rnd \in RandomDraws :
          gameState' = spawnBubble(mode, gameState, stageDimensions, rnd)
    /\ UNCHANGED <<inputVars, mode, stageDimensions, isPaused, effectIsPaused, mounted, raf,
                   music, reports, lsCheckpoint, lsScores, popLog, popCount, exitLog,
                   lastCall, appStatus, ticks>>

DifficultyNext == CallSpawnBubble

DifficultySpec == DifficultyInit /\ [][DifficultyNext]_vars

(***************************************************************************)
(* The session before any pointer input: bubbles spawned at the left and   *)
(* right ends of the spawn range, with the largest radius, rise on stages  *)
(* of several sizes until they are removed above the top                   *)
(***************************************************************************)
\* the Math.random() draws of one spawnBubble call, at the ends of their ranges
SentinelTick ==
    /\ UNCHANGED ticks
    /\ \E dt \in FastFrames, rnd \in [x : {0, 100}, t : {0, 500}, r : {100}, s : {100}], writeOk \in BOOLEAN :
          gameLoop(dt, rnd, writeOk)

\* sizes the ResizeObserver reports (2 x 2, 50 x 10 and 1200 x 100 pixels)
SentinelResize ==
    \E d \in {[width |-> 20, height |-> 20], [width |-> 500, height |-> 100],
              [width |-> 12000, height |-> 1000]} : ResizeTo(d)

SentinelNext == SentinelTick \/ SentinelResize

SentinelSpec == Init /\ [][SentinelNext]_vars

(***************************************************************************)
(* Level-mode sessions late in the game: resumed at one of the last two    *)
(* levels and played up to a few points below the level's target           *)
(***************************************************************************)
\* levels the session was resumed at
\* points still missing to the level's target
ProgressInit ==
    /\ mode = "LEVELS"
    /\ \E lvl \in {NumLevels - 1, NumLevels}, short \in {10, 50} :
          /\ gameState = [InitialGameState(mode, lvl)
                             EXCEPT !.score = currentLevel(lvl - 1).target - short]
          /\ lsCheckpoint = Stored("num", 2 * lvl)
    /\ stageDimensions \in StageSizes
    /\ isPaused = FALSE
    /\ effectIsPaused = FALSE
    /\ mounted = TRUE
    /\ raf = TRUE
    /\ music = "playing"
    /\ reports = << >>
    /\ lsScores = NoScores
    /\ popLog = << >>
    /\ popCount = [i \in 1..MaxBubbles |-> 0]
    /\ exitLog = << >>
    /\ lastCall = NoCall
    /\ appStatus = "PLAYING"
    /\ ticks = 0
    /\ video = NoVideo
    /\ vision = NewVisionService
    /\ oneEuroFilter = NewFilter
    /\ lastMap = NoMap

ProgressNext == Tick \/ MouseMove

ProgressSpec == ProgressInit /\ [][ProgressNext]_vars

(***************************************************************************)
(* The level tables read at any index                                      *)
(***************************************************************************)
\* the level table of each constants.ts
LevelTable(name) ==
    CASE name = "LEVELS (20 levels)"  -> LEVELS
      [] name = "LEVELS (100 levels)" -> generateLevels100
      [] name = "LEVELS (6 levels)"   -> LEVELS6

\* LEVELS[i - 1] of the table called name
ReadLevel(name) ==
    /\ \E i \in 1..Len(LevelTable(name)) :
          lastCall' = [NoCall EXCEPT !.op = name, !.arg = i, !.ret = LevelTable(name)[i]]
    /\ UNCHANGED <<sessionVars, lsCheckpoint, lsScores>>

ReadLevels20 == ReadLevel("LEVELS (20 levels)")

ReadLevels100 == ReadLevel("LEVELS (100 levels)")

ReadLevels6 == ReadLevel("LEVELS (6 levels)")

LevelsNext ==
    \/ ReadLevels20
    \/ ReadLevels100
    \/ ReadLevels6

LevelsSpec == InputInit /\ [][LevelsNext]_vars

(***************************************************************************)
(* The persistence service called in any order on any stored content       *)
(***************************************************************************)
\* what localStorage may hold under the checkpoint key
\* what localStorage may hold under the scores key
StorageInit ==
    /\ mode = "LEVELS"
    /\ gameState = InitialGameState(mode, 1)
    /\ stageDimensions = ZeroSize
    /\ isPaused = FALSE
    /\ effectIsPaused = FALSE
    /\ mounted = FALSE
    /\ raf = FALSE
    /\ music = "stopped"
    /\ reports = << >>
    /\ lsCheckpoint \in ({NoRecord, Garbage, Stored("nan", 0), Stored("inf", 0)}
                           \cup {Stored("num", h) : h \in -2..(2 * MaxLevelArg + 3)})
    /\ lsScores \in ({NoScores, GarbageScores}
                       \cup {[kind |-> "obj", LEVELS |-> a, INFINITE |-> b] :
                                a, b \in 0..MaxScoreArg})
    /\ popLog = << >>
    /\ popCount = [i \in 1..MaxBubbles |-> 0]
    /\ exitLog = << >>
    /\ lastCall = NoCall
    /\ appStatus = "MENU"
    /\ ticks = 0
    /\ video = NoVideo
    /\ vision = NewVisionService
    /\ oneEuroFilter = NewFilter
    /\ lastMap = NoMap

Call(op, arg, m, ok, ret) ==
    lastCall' = [op |-> op, arg |-> arg, m |-> m, ok |-> ok, ret |-> ret,
                 cpB |-> lsCheckpoint, scB |-> lsScores]

CallLoadCheckpoint ==
    /\ lsCheckpoint' = loadCheckpoint(lsCheckpoint).ls
    /\ Call("loadCheckpoint", 0, "LEVELS", TRUE, loadCheckpoint(lsCheckpoint).ret.h)
    /\ UNCHANGED <<sessionVars, lsScores>>

CallSaveUnlocked ==
    \E n \in -1..MaxLevelArg, writeOk \in BOOLEAN :
        /\ lsCheckpoint' = saveUnlockedLevelIfHigher(lsCheckpoint, n, writeOk)
        /\ Call("saveUnlockedLevelIfHigher", n, "LEVELS", writeOk, 0)
        /\ UNCHANGED <<sessionVars, lsScores>>

CallClearCheckpoint ==
    /\ lsCheckpoint' = clearCheckpoint(lsCheckpoint)
    /\ Call("clearCheckpoint", 0, "LEVELS", TRUE, 0)
    /\ UNCHANGED <<sessionVars, lsScores>>

CallGetHighScore ==
    \E m \in {"LEVELS", "INFINITE"} :
        /\ Call("getHighScore", 0, m, TRUE, getHighScore(lsScores, m))
        /\ UNCHANGED <<sessionVars, lsCheckpoint, lsScores>>

CallSaveHighScore ==
    \E m \in {"LEVELS", "INFINITE"}, score \in 0..MaxScoreArg, writeOk \in BOOLEAN :
        /\ lsScores' = saveHighScore(lsScores, m, score, writeOk).ls
        /\ Call("saveHighScore", score, m, writeOk,
                IF saveHighScore(lsScores, m, score, writeOk).ret THEN 1 ELSE 0)
        /\ UNCHANGED <<sessionVars, lsCheckpoint>>

StorageNext ==
    \/ CallLoadCheckpoint
    \/ CallSaveUnlocked
    \/ CallClearCheckpoint
    \/ CallGetHighScore
    \/ CallSaveHighScore

StorageSpec == StorageInit /\ [][StorageNext]_vars

(***************************************************************************)
(* Properties of the session                                               *)
(***************************************************************************)
\* what a tick of the simulation may change, the two clocks left out
SimState(gs) ==
    <<gs.status, gs.score, gs.lives, gs.levelIndex, gs.levelScoreStart, gs.bubbles,
      gs.particles, gs.screenShake, gs.messageTimer>>

\* the step is a frame callback
IsTick == ticks' = ticks + 1

\* the persisted highest-unlocked level, in halves, as loadCheckpoint reads it
Persisted(raw) == loadCheckpoint(raw).ret.h

\* C1: while the session is paused, every frame tick leaves the simulation state
\* (status, score, lives, level, bubbles, particles, shake, message timer) as it
\* was and still schedules the next tick.
C1_PausedTickFreezes ==
    [][(isPaused /\ IsTick) => (SimState(gameState') = SimState(gameState) /\ raf')]_vars

\* C2: in endless mode the pop of a bomb sets the status to GAME_OVER at once and
\* reports the score held before that pop, to which the pop adds nothing.
C2_EndlessBombEndsSession ==
    mode = "INFINITE" =>
        \A i \in 1..Len(popLog) :
            popLog[i].type = "BOMB" =>
                /\ popLog[i].statusA = "GAME_OVER"
                /\ popLog[i].reported = popLog[i].scoreB
                /\ popLog[i].scoreA = popLog[i].scoreB
                /\ gameState.status = "GAME_OVER"
                /\ appStatus # "PLAYING"

\* C2 happens: an endless session ended by a bomb after points were scored
C2_Witness ==
    /\ mode = "INFINITE"
    /\ \E i \in 1..Len(popLog) :
          popLog[i].type = "BOMB" /\ popLog[i].scoreB > 0 /\ popLog[i].statusB = "PLAYING"

\* C3: in level mode, at the end of a tick in which the pop of a bomb took the
\* lives to zero, lives are 3, the score is the level's starting score, there is
\* no bubble and no particle, the level index is what it was and the status is
\* PLAYING.
C3_RestartedTickEndsClean ==
    [][(IsTick /\ mode = "LEVELS" /\ \E i \in 1..Len(popLog') : popLog'[i].restarted) =>
          /\ gameState'.lives = 3
          /\ gameState'.score = gameState'.levelScoreStart
          /\ gameState'.bubbles = << >>
          /\ gameState'.particles = << >>
          /\ gameState'.levelIndex = gameState.levelIndex
          /\ gameState'.status = "PLAYING"]_vars

\* C4: in level mode, a pop after which the score is at least the target of the
\* current level advances the level index by one in that same pop resolution,
\* records the score as the level's starting score and empties the bubble list,
\* with score and lives as the pop left them; a pop that leaves the score below
\* the target does not advance.
C4_LevelClearInSamePop ==
    mode = "LEVELS" =>
        \A i \in 1..Len(popLog) :
            LET e == popLog[i]
            IN IF e.scoreM >= currentLevel(e.levelB).target
               THEN /\ e.cleared
                    /\ e.levelA = e.levelB + 1
                    /\ e.startA = e.scoreM
                    /\ e.emptyA
                    /\ e.scoreA = e.scoreM
                    /\ e.livesA = e.livesM
               ELSE ~e.cleared /\ e.levelA = e.levelB

\* C4 happens: a pop that brought the score to the target exactly
C4_Witness ==
    /\ mode = "LEVELS"
    /\ \E i \in 1..Len(popLog) :
          popLog[i].cleared /\ popLog[i].scoreM = currentLevel(popLog[i].levelB).target

\* C5: every level-clear calls saveUnlockedLevelIfHigher with the 1-based number
\* of the cleared level; when the write succeeds the persisted highest-unlocked
\* level is then at least the 1-based number of the level advanced to; and the
\* entry is rewritten only when that number exceeds the persisted one.
C5_ClearNotifiesPersistence ==
    \A i \in 1..Len(popLog) :
        LET e == popLog[i]
        IN e.cleared =>
              /\ e.notified = e.levelB + 1
              /\ e.wrote => Persisted(e.cpA) >= 2 * (e.levelA + 1)
              /\ e.cpA # e.cpB => /\ 2 * (e.levelA + 1) > Persisted(e.cpB)
                                  /\ e.wrote
                                  /\ e.cpA = makeCheckpointPayload(e.levelA + 1)

\* C5 happens: a level-clear whose write went through and raised the persisted level
C5_Witness ==
    \E i \in 1..Len(popLog) :
        /\ popLog[i].cleared /\ popLog[i].wrote
        /\ Persisted(popLog[i].cpA) > Persisted(popLog[i].cpB)

\* a level-clear that left a higher persisted level alone
C5_WitnessKept ==
    \E i \in 1..Len(popLog) :
        /\ popLog[i].cleared /\ popLog[i].wrote
        /\ Persisted(popLog[i].cpB) > 2 * (popLog[i].levelA + 1)

(***************************************************************************)
(* Properties of the persistence service                                   *)
(***************************************************************************)
\* the step is a call of saveUnlockedLevelIfHigher
IsSaveUnlocked == lastCall'.op = "saveUnlockedLevelIfHigher"

\* C6 as stated: a call of saveUnlockedLevelIfHigher with argument n leaves the
\* persisted highest-unlocked level at max(previous, max(1, n + 1)).
C6_StoredIsMax ==
    [][IsSaveUnlocked =>
          Persisted(lsCheckpoint') =
              Max(Persisted(lsCheckpoint), 2 * Max(1, lastCall'.arg + 1))]_vars

\* C6 amended: a call of saveUnlockedLevelIfHigher never lowers the persisted
\* highest-unlocked level; with argument n it leaves max(previous, max(1, n + 1))
\* when the write goes through, and the previous level when the write fails.
C6_NeverDecreases ==
    [][IsSaveUnlocked =>
          /\ Persisted(lsCheckpoint') >= Persisted(lsCheckpoint)
          /\ lastCall'.ok =>
                Persisted(lsCheckpoint') =
                    Max(Persisted(lsCheckpoint), 2 * Max(1, lastCall'.arg + 1))
          /\ ~lastCall'.ok => Persisted(lsCheckpoint') = Persisted(lsCheckpoint)]_vars

\* C6 happens: a call with a lower level after a higher one was persisted
C6_Witness ==
    /\ lastCall.op = "saveUnlockedLevelIfHigher"
    /\ lastCall.ok
    /\ lastCall.cpB.kind = "obj"
    /\ 2 * Max(1, lastCall.arg + 1) < Persisted(lastCall.cpB)
    /\ lsCheckpoint = lastCall.cpB

\* C7: loadCheckpoint returns an integer level >= 1 whatever is stored: 1 for a
\* missing entry; 1 for an unparseable, non-numeric, non-finite or sub-1 entry,
\* which it removes; and the stored level, entry kept, for a valid one.
C7_LoadReturnsLevel ==
    lastCall.op = "loadCheckpoint" =>
        LET raw == lastCall.cpB
            valid == raw.kind = "obj" /\ raw.tag = "num" /\ raw.h >= 2
        IN /\ lastCall.ret % 2 = 0
           /\ lastCall.ret >= 2
           /\ raw.kind = "none" => lastCall.ret = 2 /\ lsCheckpoint = raw
           /\ (raw.kind # "none" /\ ~valid) => lastCall.ret = 2 /\ lsCheckpoint = NoRecord
           /\ valid => lastCall.ret = raw.h /\ lsCheckpoint = raw

\* the stored best score of a mode, 0 when there is none to read
StoredBest(raw, m) == IF raw.kind = "obj" THEN raw[m] ELSE 0

OtherMode(m) == IF m = "LEVELS" THEN "INFINITE" ELSE "LEVELS"

\* C8: saveHighScore(mode, score), the write not failing, returns true exactly
\* when score exceeds the stored best of the mode (0 by default), leaves the
\* larger of the two as the stored best and leaves the other mode's best alone.
C8_SaveKeepsMaximum ==
    [][(lastCall'.op = "saveHighScore" /\ lastCall'.ok) =>
          LET m == lastCall'.m
              score == lastCall'.arg
          IN /\ (lastCall'.ret = 1) <=> (score > StoredBest(lsScores, m))
             /\ StoredBest(lsScores', m) = Max(StoredBest(lsScores, m), score)
             /\ StoredBest(lsScores', OtherMode(m)) = StoredBest(lsScores, OtherMode(m))]_vars

(***************************************************************************)
(* Properties of the bubbles                                               *)
(***************************************************************************)
\* C9: a bubble gets at most one pop resolution between its spawn and its
\* removal, and the pop resolutions of one tick are of distinct bubbles.
C9_OnePopPerBubble ==
    /\ \A id \in 1..MaxBubbles : popCount[id] <= 1
    /\ \A i, j \in 1..Len(popLog) : i # j => popLog[i].id # popLog[j].id

\* C9 happens: several bubbles popped in one tick
C9_Witness ==
    /\ Len(popLog) >= 2
    /\ \E id \in 1..MaxBubbles : popCount[id] = 1

\* C10: at a steady frame rate, every bubble in the active list is eventually
\* out of it.
C10_BubbleEventuallyRemoved ==
    \A id \in 1..MaxBubbles :
        (id \in IdsOf(gameState.bubbles)) ~> (id \notin IdsOf(gameState.bubbles))

\* C10 happens: a bubble that was never popped left through the top
C10_Witness ==
    /\ exitLog # << >>
    /\ \A i \in 1..Len(exitLog) : exitLog[i] \notin IdsOf(gameState.bubbles)

(***************************************************************************)
(* Properties of the active list, the lives and the score                  *)
(***************************************************************************)
\* C11: no bubble of the active list carries the popped flag, and every bubble
\* of the active list has a radius above 0.
C11_ActiveBubblesUnpopped ==
    \A i \in 1..Len(gameState.bubbles) :
        ~gameState.bubbles[i].isPopped /\ gameState.bubbles[i].radius > 0

\* C11 happens: a tick popped a bubble, without restart or level-clear, and the
\* bubble is gone from the active list
C11_Witness ==
    /\ popLog # << >>
    /\ \A i \in 1..Len(popLog) :
          /\ ~popLog[i].restarted /\ ~popLog[i].cleared
          /\ popLog[i].id \notin IdsOf(gameState.bubbles)

\* C12: lives are within 0..3 in level mode and exactly 1 in endless mode.
C12_LivesInRange ==
    /\ mode = "LEVELS" => gameState.lives \in 0..3
    /\ mode = "INFINITE" => gameState.lives = 1

\* C13: a mouse event becomes the pointer used for hit testing exactly when more
\* than 500 ms have passed since the last hand sample; inside the window it
\* leaves the pointer and its source as they are, however hand samples and
\* mouse events interleave.
C13_MouseOnlyAfterWindow ==
    [][\A p \in MousePoints :
          handleMouseMove(p) =>
             IF gameState.sinceHand > 500
             THEN gameState'.fingerPos = p /\ gameState'.inputType = "MOUSE"
             ELSE /\ gameState'.fingerPos = gameState.fingerPos
                  /\ gameState'.inputType = gameState.inputType]_vars

\* C13 happens: after two hand samples the mouse took a stale camera pointer over
C13_Witness ==
    /\ lastMap.n = 2
    /\ ~lastMap.mapped.isNull
    /\ gameState.inputType = "MOUSE"
    /\ gameState.fingerPos \in MousePoints
    /\ gameState.sinceHand \in 501..(Stale - 1)

\* C14 as stated: a pop resolution changes the score by the amount fixed for the
\* bubble's category: ordinary 10, rare 50, bomb 0, heart 0.
C14_ScoreByCategory ==
    \A i \in 1..Len(popLog) :
        LET e == popLog[i]
            points == CASE e.type = "NORMAL" -> 10
                        [] e.type = "RARE"   -> 50
                        [] e.type = "BOMB"   -> 0
                        [] e.type = "HEART"  -> 0
        IN e.scoreA = e.scoreB + points

\* C14 amended: a pop resolution changes the score by the amount fixed for the
\* bubble's category, except the bomb pop that takes the lives to zero in level
\* mode, which leaves the score at the level's starting score.
C14_ScoreByCategoryOrRestart ==
    \A i \in 1..Len(popLog) :
        LET e == popLog[i]
            points == CASE e.type = "NORMAL" -> 10
                        [] e.type = "RARE"   -> 50
                        [] e.type = "BOMB"   -> 0
                        [] e.type = "HEART"  -> 0
        IN IF e.restarted
           THEN e.type = "BOMB" /\ e.scoreA = e.startA
           ELSE e.scoreA = e.scoreB + points

\* C14 happens: a rare bubble and an ordinary one popped in one tick
C14_Witness ==
    /\ \E i \in 1..Len(popLog) : popLog[i].type = "RARE" /\ popLog[i].scoreA = popLog[i].scoreB + 50
    /\ \E i \in 1..Len(popLog) : popLog[i].type = "NORMAL" /\ popLog[i].scoreA = popLog[i].scoreB + 10

\* C15: a pop resolution changes the lives only so: a bomb in level mode takes
\* one life, and the restart that follows the last life sets them to 3; a heart
\* gives one life below 3 and none at 3; ordinary and rare bubbles, and the bomb
\* of endless mode, leave the lives alone.
C15_LivesByCategory ==
    \A i \in 1..Len(popLog) :
        LET e == popLog[i]
        IN CASE e.type = "BOMB" /\ mode = "LEVELS" ->
                    IF e.livesB - 1 <= 0
                    THEN e.restarted /\ e.livesA = 3
                    ELSE ~e.restarted /\ e.livesA = e.livesB - 1
             [] e.type = "HEART" ->
                    e.livesA = (IF e.livesB < 3 THEN e.livesB + 1 ELSE e.livesB)
             [] OTHER -> e.livesA = e.livesB /\ ~e.restarted

\* C15 happens: a heart popped at 3 lives right after a heart popped at 2
C15_Witness ==
    /\ \E i \in 1..Len(popLog) : popLog[i].type = "HEART" /\ popLog[i].livesB = 2
    /\ \E i \in 1..Len(popLog) : popLog[i].type = "HEART" /\ popLog[i].livesB = 3

\* C16: RESTART LEVEL is taken only while paused and only in level mode; it
\* leaves 3 lives, the level's starting score, no bubble, no particle, the level
\* index as it was, and the session not paused.
C16_RestartLevelAction ==
    [][handleRestartLevel =>
          /\ isPaused
          /\ mode = "LEVELS"
          /\ gameState'.lives = 3
          /\ gameState'.score = gameState.levelScoreStart
          /\ gameState'.bubbles = << >>
          /\ gameState'.particles = << >>
          /\ gameState'.levelIndex = gameState.levelIndex
          /\ ~isPaused']_vars

\* the scale drawW / vw of the latest call, as a numerator over rect.den
ScaleOf(r) == r.drawW \div video.videoWidth

\* C17: for positive video and stage sizes the cover rectangle keeps the video's
\* aspect ratio, is at least as wide and as high as the stage with equality on
\* one axis, its scale is the larger of stageW/videoW and stageH/videoH, and its
\* offsets are (stageW - drawW) / 2 and (stageH - drawH) / 2, never positive.
C17_CoverRect ==
    lastMap.op = "getCoverRect" =>
       LET r  == lastMap.rect
           vw == video.videoWidth
           vh == video.videoHeight
           sw == stageDimensions.width
           sh == stageDimensions.height
       IN /\ r.den > 0
          /\ r.drawW % vw = 0 /\ r.drawH % vh = 0
          /\ r.drawW \div vw = r.drawH \div vh
          /\ r.drawW >= sw * r.den
          /\ r.drawH >= sh * r.den
          /\ r.drawW = sw * r.den \/ r.drawH = sh * r.den
          /\ IF sw * vh >= sh * vw THEN ScaleOf(r) * vw = sw * r.den
                                   ELSE ScaleOf(r) * vh = sh * r.den
          /\ 2 * r.offsetX = sw * r.den - r.drawW
          /\ 2 * r.offsetY = sh * r.den - r.drawH
          /\ r.offsetX <= 0 /\ r.offsetY <= 0

\* C17 happens: a 640 x 480 video on the 720 x 1280 stage is cropped left and right
C17_Witness ==
    /\ lastMap.op = "getCoverRect"
    /\ video = [videoWidth |-> 640, videoHeight |-> 480]
    /\ stageDimensions = [width |-> 7200, height |-> 12800]
    /\ lastMap.rect.offsetX < 0
    /\ lastMap.rect.offsetY = 0

\* the case of C18: (0.5, 0.5) of a 640 x 480 video mapped to the 1280 x 720 stage
C18_Case ==
    /\ lastMap.op = "mapLandmarkToStage"
    /\ video = [videoWidth |-> 640, videoHeight |-> 480]
    /\ stageDimensions = [width |-> 12800, height |-> 7200]
    /\ lastMap.normX = 50 /\ lastMap.normY = 50

\* the centre (640, 360) of the 1280 x 720 stage, exactly
C18_Centre ==
    /\ ~lastMap.mapped.isNull
    /\ lastMap.mapped.x = 6400 * lastMap.mapped.den
    /\ lastMap.mapped.y = 3600 * lastMap.mapped.den

\* C18 as stated: for a 640 x 480 video and the 1280 x 720 stage the scale is
\* stage height / video height, and (0.5, 0.5) maps to (640, 360) exactly,
\* mirrored or not.
C18_ScaleIsHeightRatio ==
    C18_Case =>
       /\ ScaleOf(lastMap.rect) * 480 = 7200 * lastMap.rect.den
       /\ C18_Centre

\* C18 amended: for a 640 x 480 video and the 1280 x 720 stage the scale is
\* stage width / video width, the larger ratio, and (0.5, 0.5) maps to
\* (640, 360) exactly, mirrored or not.
C18_ScaleIsWidthRatio ==
    C18_Case =>
       /\ ScaleOf(lastMap.rect) * 640 = 12800 * lastMap.rect.den
       /\ C18_Centre

\* C18 happens: the centre was mapped without mirroring
C18_Witness ==
    /\ C18_Case
    /\ ~lastMap.mirrored
    /\ C18_Centre

\* a video size or a stage size is unknown or zero
SizeUnknown ==
    \/ video.videoWidth = 0 \/ video.videoHeight = 0
    \/ stageDimensions.width = 0 \/ stageDimensions.height = 0

\* C19: while the video size or the stage size is unknown or zero, the mapping of
\* a hand sample returns null and the callback skips the sample: the pointer,
\* the filter and the last stable point stay as they were.
C19_NullMappingSkipsSample ==
    [][\A results \in HandSamples :
          (onHandResults(results) /\ results.hands = 1 /\ SizeUnknown) =>
             /\ lastMap'.mapped.isNull
             /\ gameState'.fingerPos = gameState.fingerPos
             /\ gameState'.lastStablePos = gameState.lastStablePos
             /\ oneEuroFilter' = oneEuroFilter]_vars

\* C19 happens: a sample was skipped after an earlier one had set the pointer
C19_Witness ==
    /\ lastMap.op = "onHandResults"
    /\ lastMap.n = 2
    /\ lastMap.mapped.isNull
    /\ SizeUnknown
    /\ oneEuroFilter.seeded
    /\ gameState.fingerPos # Sentinel
    /\ gameState.inputType = "CAMERA"
    /\ gameState.sinceHand = 0

\* point p is on a stage of size d, at least 4 pixels from each edge
InsideMargin(p, d) ==
    /\ 40 <= p.x /\ p.x <= d.width - 40
    /\ 40 <= p.y /\ p.y <= d.height - 40

\* C20: every pointer a hand sample stores for hit testing lies on the stage in
\* force, at least 4 pixels from each edge, whatever hand samples and resizes
\* came before.
C20_StoredPointerInsideMargin ==
    [][\A results \in HandSamples :
          (onHandResults(results) /\ results.hands = 1 /\ ~lastMap'.mapped.isNull) =>
             InsideMargin(gameState'.fingerPos, stageDimensions')]_vars

\* the square of the distance between two points
Dist2(p, q) == (p.x - q.x) * (p.x - q.x) + (p.y - q.y) * (p.y - q.y)

\* C21: the stabilizer adopts the first point it is given; afterwards it returns
\* and keeps the last stable point when the new point is less than 2.0 pixels
\* from it, and adopts and returns the new point otherwise; the distance is
\* taken to the last stable point, whatever the previous sample was.
C21_Deadzone ==
    [][\A p \in DeadzonePoints :
          (lastMap'.op = "applyDeadzone" /\ lastMap'.n = lastMap.n + 1
             /\ lastMap'.filtered = p) =>
             IF lastMap.n = 0 \/ Dist2(p, gameState.lastStablePos) >= 20 * 20
             THEN gameState'.lastStablePos = p /\ lastMap'.stable = p
             ELSE /\ gameState'.lastStablePos = gameState.lastStablePos
                  /\ lastMap'.stable = gameState.lastStablePos]_vars

\* C21 happens: after (10, 10), the point 1.5 pixels to the right was held back
\* and the next one, 1.5 pixels further and 3.0 from the stable point, adopted
C21_Witness ==
    /\ lastMap.op = "applyDeadzone"
    /\ lastMap.n = 3
    /\ lastMap.prev = [x |-> 115, y |-> 100]
    /\ lastMap.filtered = [x |-> 130, y |-> 100]
    /\ lastMap.stable = [x |-> 130, y |-> 100]
    /\ gameState.lastStablePos = [x |-> 130, y |-> 100]

\* c lies between a and b
Between(a, c, b) == Min(a, b) <= c /\ c <= Max(a, b)

\* C22: the first update returns its input and seeds the filter with it; every
\* later output lies, on each axis, between the previous smoothed value and the
\* input, so an input equal to the smoothed value is returned as it is.
C22_FilterOutput ==
    [][\A p \in FilterPoints :
          (lastMap'.op = "update" /\ lastMap'.n = lastMap.n + 1 /\ lastMap'.clamped = p) =>
             /\ oneEuroFilter'.seeded
             /\ oneEuroFilter'.x = lastMap'.filtered.x
             /\ oneEuroFilter'.y = lastMap'.filtered.y
             /\ IF lastMap.n = 0
                THEN lastMap'.filtered = p
                ELSE /\ Between(oneEuroFilter.x, lastMap'.filtered.x, p.x)
                     /\ Between(oneEuroFilter.y, lastMap'.filtered.y, p.y)
                     /\ (oneEuroFilter.x = p.x /\ oneEuroFilter.y = p.y)
                           => lastMap'.filtered = p]_vars

\* C22 happens: seeded with (10, 10) and then given (30, 10), the filter returned
\* a point strictly between the two
C22_Witness ==
    /\ lastMap.op = "update"
    /\ lastMap.n = 2
    /\ lastMap.prev = [x |-> 100, y |-> 100]
    /\ lastMap.clamped = [x |-> 300, y |-> 100]
    /\ 100 < lastMap.filtered.x /\ lastMap.filtered.x < 300
    /\ lastMap.filtered.y = 100

\* the positions, in the list after the step, of the bubbles spawned by the step
NewBubbles == {i \in 1..Len(gameState'.bubbles) :
                  gameState'.bubbles[i].id \notin IdsOf(gameState.bubbles)}

\* C23: a heart is spawned only in level mode, only while lives are below 3 and
\* only from the third level on; no heart is ever in the list in endless mode.
C23_HeartSpawn ==
    [][/\ IsTick =>
            \A i \in NewBubbles :
               gameState'.bubbles[i].type = "HEART" =>
                  /\ mode = "LEVELS"
                  /\ gameState.lives < 3
                  /\ gameState.levelIndex > 1
       /\ \A i \in 1..Len(gameState'.bubbles) :
             gameState'.bubbles[i].type = "HEART" =>
                mode = "LEVELS" /\ gameState'.levelIndex > 1]_vars

\* C23 happens: a heart is in the list, on the third level with a life lost
C23_Witness ==
    /\ mode = "LEVELS"
    /\ gameState.levelIndex = 2
    /\ gameState.lives < 3
    /\ \E i \in 1..Len(gameState.bubbles) : gameState.bubbles[i].type = "HEART"

\* the session at cumulative score t
AtScore(t) == [gameState EXCEPT !.score = t]

\* C24: in endless mode the bomb probability and the speed multiplier do not
\* decrease when the score grows, and each of them is capped: over the scores
\* 0 .. 8000 the value at the top score is already taken at a lower score.
C24_EndlessDifficultyCapped ==
    mode = "INFINITE" =>
       /\ \A t \in EndlessScores :
             t >= gameState.score =>
                /\ bombChance(mode, AtScore(t)) >= bombChance(mode, gameState)
                /\ difficultyMult(mode, AtScore(t)) >= difficultyMult(mode, gameState)
       /\ \E t \in EndlessScores \ {ScoreTop} :
             bombChance(mode, AtScore(t)) = bombChance(mode, AtScore(ScoreTop))
       /\ \E t \in EndlessScores \ {ScoreTop} :
             difficultyMult(mode, AtScore(t)) = difficultyMult(mode, AtScore(ScoreTop))

\* C25: in every level table, at every index, the score target is above the one
\* of the index before, the speed multiplier is within 1.0 .. 2.5, the spawn
\* multiplier within 0.5 .. 1.0 and the bomb probability within 0.05 .. 0.30.
C25_LevelTableBounds ==
    lastCall.op # "none" =>
       LET i == lastCall.arg
           level == lastCall.ret
       IN /\ i > 1 => level.target > LevelTable(lastCall.op)[i - 1].target
          /\ 100 <= level.speedMod /\ level.speedMod <= 250
          /\ 50 <= level.spawnMod /\ level.spawnMod <= 100
          /\ 50 <= level.bombChance /\ level.bombChance <= 300

\* C26: a tick that finds the stage width or height zero leaves the simulation
\* state (status, score, lives, level, bubbles, particles, shake, message and
\* its timer) as it was, pops and removes nothing, reports and persists nothing,
\* and schedules the next tick.
C26_ZeroSizeTickSkips ==
    [][(/\ IsTick
        /\ ~effectIsPaused
        /\ gameState.status = "PLAYING"
        /\ stageDimensions.width = 0 \/ stageDimensions.height = 0) =>
          /\ SimState(gameState') = SimState(gameState)
          /\ gameState'.message = gameState.message
          /\ popLog' = << >> /\ exitLog' = << >>
          /\ reports' = reports /\ lsCheckpoint' = lsCheckpoint
          /\ raf']_vars

\* C26 happens: with bubbles on a collapsed stage, a tick passed though a spawn
\* was due, and the next tick is scheduled
C26_Witness ==
    /\ mounted /\ raf
    /\ gameState.status = "PLAYING"
    /\ stageDimensions = ZeroSize
    /\ Len(gameState.bubbles) \in 1..(MaxBubbles - 1)
    /\ gameState.sinceSpawn = Stale
    /\ ticks >= 2

\* the pointer fields of the session
PointerState(gs) == <<gs.inputType, gs.fingerPos, gs.lastStablePos>>

\* C27: the teardown of the session (exit to menu, or unmount after game over)
\* leaves no frame callback pending, and after it no tick, hand sample, mouse
\* move or key press changes the simulation state, the pointer, the filter, the
\* pause flag, the reported scores or the checkpoint.
C27_TeardownStopsEvents ==
    [][/\ (mounted /\ ~mounted') => ~raf'
       /\ ~mounted =>
             /\ ~raf'
             /\ SimState(gameState') = SimState(gameState)
             /\ PointerState(gameState') = PointerState(gameState)
             /\ oneEuroFilter' = oneEuroFilter
             /\ isPaused' = isPaused
             /\ reports' = reports
             /\ lsCheckpoint' = lsCheckpoint]_vars

\* C27 happens: the session was unmounted after a game over that followed a hand
\* sample, and the camera stream got its size afterwards
C27_Witness ==
    /\ ~mounted /\ ~raf
    /\ appStatus = "GAME_OVER"
    /\ gameState.status = "GAME_OVER"
    /\ reports # << >>
    /\ lastMap.n >= 1

\* the step is a hand result delivered to the landmark callback
IsHandResult == \E results \in HandSamples : onHandResults(results)

\* C28: the landmark callback changes nothing but the input type, the time of
\* the last hand, the pointer, the last stable point and the filter; a tick
\* changes none of the input type, the pointer, the last stable point and the
\* filter's values, and lets the time since the last hand just run on.
C28_SingleWriter ==
    [][/\ IsHandResult =>
             /\ SimState(gameState') = SimState(gameState)
             /\ gameState'.sinceSpawn = gameState.sinceSpawn
             /\ gameState'.message = gameState.message
             /\ reports' = reports
             /\ lsCheckpoint' = lsCheckpoint
             /\ popLog' = popLog
       /\ IsTick =>
             /\ PointerState(gameState') = PointerState(gameState)
             /\ \E dt \in SlowFrames :
                   /\ gameState'.sinceHand = Min(Stale, gameState.sinceHand + dt)
                   /\ oneEuroFilter' = ElapseFilter(oneEuroFilter, dt)]_vars

\* C28 happens: a tick popped a bubble under a pointer the camera had set
C28_Witness ==
    /\ ticks >= 1
    /\ popLog # << >>
    /\ lastMap.n >= 1
    /\ gameState.inputType = "CAMERA"
    /\ gameState.fingerPos # Sentinel

\* C29: a tick runs only as the one pending frame callback and advances the
\* simulation by one tick; a tick that starts with status PLAYING, paused or
\* not, leaves exactly one callback pending; nothing but a tick requests a
\* frame; so a mounted session with status PLAYING always has its callback
\* pending.
C29_LoopSustained ==
    [][/\ IsTick =>
             /\ raf
             /\ gameState.status = "PLAYING" => raf'
       /\ ~IsTick => (raf' => raf)
       /\ (mounted /\ gameState.status = "PLAYING") => raf
       /\ (mounted' /\ gameState'.status = "PLAYING") => raf']_vars

\* C29 happens: the loop is still running after every tick of the bound, through
\* a pause and a level restart
C29_Witness ==
    /\ ticks = MaxTicks
    /\ mounted /\ raf
    /\ gameState.status = "PLAYING"
    /\ isPaused
    /\ gameState.message.text = "Level Failed! Restarting..."

\* C30: a tick stamps the spawn time only if more than 900 ms times the level's
\* spawn multiplier have passed since the last stamp, by the tick's time; a tick
\* adds at most one bubble and stamps the spawn time when it adds one; nothing
\* else writes the spawn time, so two spawns in a row are more than that
\* interval apart.
C30_SpawnCadence ==
    [][\E dt \in FastFrames :
          LET elapsed == Min(Stale, gameState.sinceSpawn + dt)
              interval == 900 * currentLevel(gameState.levelIndex).spawnMod
          IN /\ gameState'.sinceSpawn = 0 => elapsed * 100 > interval
             /\ Cardinality(NewBubbles) <= 1
             /\ NewBubbles # {} => gameState'.sinceSpawn = 0
             /\ gameState'.sinceSpawn # 0 =>
                   gameState'.sinceSpawn \in {gameState.sinceSpawn, elapsed}]_vars

\* C30 happens: a tick has just spawned a bubble while an earlier one is still
\* in the list
C30_Witness ==
    /\ gameState.sinceSpawn = 0
    /\ Len(gameState.bubbles) >= 2
    /\ gameState.status = "PLAYING"

\* C31: once any input has been received, from the camera or from the mouse, the
\* pointer used for hit testing is the stabilizer's last stable point.
C31_PointerIsStablePoint ==
    gameState.fingerPos # Sentinel => gameState.fingerPos = gameState.lastStablePos

\* C32: Escape pressed while the session is paused resumes it: under a player
\* who keeps pressing Escape, a paused session is eventually running again.
C32_EscapeResumes == isPaused ~> ~isPaused

\* C33: a watchdog callback that finds the camera stream dead while the tracker
\* is running makes a new getUserMedia request.
C33_WatchdogRecovers ==
    [][(startWatchdog /\ vision'.found = "dead") =>
          vision'.awaitMedia = vision.awaitMedia + 1]_vars

\* C34: at most one restartPipeline execution is in progress at any time, the
\* in-progress flag is set exactly while one is, a frame is sent to the detector
\* only while none is, and the end of a restart clears the flag whether
\* initMediaPipe succeeded or threw.
C34_RestartExclusive ==
    [][/\ vision.restarts <= 1 /\ vision'.restarts <= 1
       /\ vision'.isRestarting <=> vision'.restarts = 1
       /\ (processFrame /\ vision'.frame = "sent") =>
             vision.restarts = 0 /\ ~vision.isRestarting
       /\ restartPipelineEnds => ~vision'.isRestarting /\ vision'.restarts = 0]_vars

\* C34 happens: the watchdog found the pipeline stalled and started a restart,
\* and the frame loop has skipped a frame while the restart is in progress
C34_Witness ==
    /\ vision.isRunning
    /\ vision.restarts = 1
    /\ vision.found = "stalled"
    /\ vision.hands = "ready"
    /\ vision.frame = "skipped"

\* C35: onGameOver is called at most once in a session, whatever lies within the
\* pointer's hit radius in the tick that ends the game.
C35_GameOverReportedOnce == Len(reports) <= 1

\* C36: once the status is GAME_OVER the score is the final score that was
\* reported: no pop is resolved after the one that ended the game.
C36_GameOverAbsorbing ==
    gameState.status = "GAME_OVER" =>
       /\ reports # << >>
       /\ gameState.score = reports[1]

\* C37: in level mode the status is never GAME_OVER and onGameOver is never
\* called; lives reaching zero restart the level.
C37_LevelModeNeverEnds ==
    mode = "LEVELS" =>
       /\ gameState.status = "PLAYING"
       /\ reports = << >>
       /\ appStatus # "GAME_OVER"

\* C37 happens: a bomb took the last life in level mode and the level was
\* restarted by the tick
C37_Witness ==
    /\ mode = "LEVELS"
    /\ \E i \in 1..Len(popLog) : popLog[i].restarted
    /\ gameState.status = "PLAYING"
    /\ gameState.lives >= 2

\* C38: in level mode the level index refers to an existing level definition: it
\* stays within 0 .. N-1, also for pops made after the last level's target has
\* been reached.
C38_LevelIndexInRange ==
    mode = "LEVELS" => (0 <= gameState.levelIndex /\ gameState.levelIndex <= NumLevels - 1)

\* the level-mode session state gs holds a score within its level
WithinLevel(gs) ==
    /\ gs.levelScoreStart <= gs.score
    /\ gs.levelIndex < NumLevels => gs.score < LEVELS[gs.levelIndex + 1].target

\* C39: in level mode, after every step, levelScoreStart <= score, and
\* score < target of the current level while the level index is below N; the
\* score decreases only through a level restart; a pop advances the session by
\* at most one level.
C39_ScoreWithinLevel ==
    [][mode = "LEVELS" =>
          /\ WithinLevel(gameState) /\ WithinLevel(gameState')
          /\ gameState'.score < gameState.score =>
                \/ handleRestartLevel
                \/ IsTick /\ \E i \in 1..Len(popLog') : popLog'[i].restarted
          /\ IsTick => \A i \in 1..Len(popLog') :
                          popLog'[i].levelA <= popLog'[i].levelB + 1]_vars

\* C39 happens: a pop of the latest tick reached the level's target and moved the
\* session to the next level, whose starting score is the score it reached
C39_Witness ==
    /\ mode = "LEVELS"
    /\ \E i \in 1..Len(popLog) :
          /\ popLog[i].cleared
          /\ popLog[i].levelA = popLog[i].levelB + 1
          /\ popLog[i].startA = popLog[i].scoreA
    /\ gameState.levelIndex < NumLevels
    /\ gameState.levelScoreStart > 0

\* C40: before any pointer input the hit-test pointer is (-100, -100), and with
\* it no bubble is popped on its way from below the surface to its removal
\* above the top: score and lives are the ones the session started with.
C40_SentinelPopsNothing ==
    /\ gameState.fingerPos = [x |-> -1000, y |-> -1000]
    /\ popLog = << >>
    /\ \A id \in DOMAIN popCount : popCount[id] = 0
    /\ gameState.score = gameState.levelScoreStart
    /\ gameState.lives = IF mode = "LEVELS" THEN 3 ELSE 1

\* C40 happens: a bubble spawned at the left end of the range on the widest stage
\* has risen past the pointer's height and left through the top
C40_Witness ==
    /\ gameState.fingerPos = [x |-> -1000, y |-> -1000]
    /\ exitLog # << >>
    /\ stageDimensions.width = 12000
    /\ \E i \in 1..Len(gameState.bubbles) :
          /\ gameState.bubbles[i].x <= 12000 \div 10
          /\ gameState.bubbles[i].y < 0

====
